---- MODULE Spec2Model ----
(***************************************************************************)
(* HybridFinalDetector (src/onlyfans_detector_hybrid_final.py): the        *)
(* escalating detection pipeline as a state machine.  One detect_onlyfans  *)
(* call is a coroutine; every action below is the code that runs between   *)
(* two suspension points (an awaited HTTP request or browser operation).   *)
(* The variable resp holds the answer the coroutine is suspended on.       *)
(* The callers of the pipeline follow it: the endpoints of                 *)
(* src/api_server.py, two calls that run on one event loop, and the        *)
(* pipeline of EnhancedOnlyFansDetector (src/onlyfans_detector_enhanced.py)*)
(* with its own actions on the same call state.                            *)
(* The parts of the other detectors follow as state machines of their own:*)
(* the redirect resolvers, the pyppeteer phase of HybridOnlyFansDetector   *)
(* and the scan of a page text for direct links.                           *)
(***************************************************************************)
EXTENDS Naturals, Sequences, FiniteSets, TLC

VARIABLES
    bio_link,              \* argument of detect_onlyfans
    PLAYWRIGHT_AVAILABLE,  \* module flag set at import time
    pc,                    \* the await the call is suspended at
    resp,                  \* outcome of the awaited operation
    results,               \* self.results
    current_url,           \* _handle_redirects_better local
    redirect_count,        \* _handle_redirects_better local
    i,                     \* index of the running identity loop
    browser,               \* browser of the interactive strategy
    onlyfans_found,        \* _handle_linkme_interactive local
    indicators,            \* _handle_linkme_fallback local age_verification_indicators
    started,               \* history: phases started, in order
    returned,              \* history: value each finished phase returned
    raised,                \* history: an exception was raised in the running phase
    faults,                \* history: awaited operations that went wrong so far
    again,                 \* history: parity of the repeats of the running request
    clock,                 \* history: awaited operations finished since the call started
    server,                \* how the site of each target answers
    depth,                 \* detect_onlyfans calls of EnhancedOnlyFansDetector on the stack
    request,               \* the HTTP request the API server is handling
    response,              \* the response of the API server
    bio_links,             \* batch_detect local (after normalization)
    batch,                 \* batch_detect local results
    invoked,               \* history: calls of detect_onlyfans_in_bio_link by the server
    stage,                 \* where the caller of two detection calls is
    parked,                \* the call that is suspended while the other one runs
    alone,                 \* history: what each call returned when it ran alone
    shared,                \* the two calls use one detector object
    switches,              \* history: times the event loop went from one call to the other
    start_url,             \* _follow_redirects argument url
    redirect_limit,        \* _follow_redirects argument max_redirects
    current,               \* _follow_redirects local
    chain,                 \* _follow_redirects local
    web,                   \* what each URL answers to a HEAD request
    probes,                \* history: the requests _follow_redirects sent, in order
    content                \* the onlyfans.com URLs of the page text, one per occurrence

vars == <<bio_link, PLAYWRIGHT_AVAILABLE, pc, resp, results, current_url,
          redirect_count, i, browser, onlyfans_found, indicators, started,
          returned, raised, faults, again, clock, server, depth, request,
          response, bio_links, batch, invoked, stage, parked, alone, shared,
          switches, start_url, redirect_limit, current, chain, web, probes, content>>

\* the state of the callers, which no step of a detection call changes
\* the state of the redirect resolver and of the scan of a page text
helpers == <<start_url, redirect_limit, current, chain, web, probes, content>>

callers == <<server, request, response, bio_links, batch, invoked,
             stage, parked, alone, shared, switches, helpers>>

\* at most MaxFaults awaited operations of one call have an outcome other
\* than the plain one
MaxFaults == 1

(***************************************************************************)
(* URLs and page text                                                      *)
(***************************************************************************)
OF_ALICE  == "https://onlyfans.com/alice"
OF_MIXED  == "https://OnlyFans.com/Alice"
OF_FILES  == "https://onlyfans.com/files/x.jpg"
OF_PUBLIC == "https://onlyfans.com/public/y.png"
OTHER_URL == "https://example.org/shop"
DETECTED  == "https://onlyfans.com/detected"

UrlTokens == {OF_ALICE, OF_MIXED, OF_FILES, OF_PUBLIC, OTHER_URL}

\* str.lower() on a URL
Lower(u) == IF u = OF_MIXED THEN OF_ALICE ELSE u

\* sub in s
RECURSIVE ContainsFrom(_, _, _)
ContainsFrom(s, sub, k) ==
    IF k + Len(sub) - 1 > Len(s) THEN FALSE
    ELSE IF SubSeq(s, k, k + Len(sub) - 1) = sub THEN TRUE
    ELSE ContainsFrom(s, sub, k + 1)

Contains(s, sub) == ContainsFrom(s, sub, 1)

\* s.startswith(p)
StartsWith(s, p) == Len(s) >= Len(p) /\ SubSeq(s, 1, Len(p)) = p

\* the URL matches  https?://[^\s<>"']*onlyfans\.com[^\s<>"']*  (re.IGNORECASE)
MatchesOfRegex(u) == StartsWith(u, "http") /\ Contains(Lower(u), "onlyfans.com")

\* the URL has a /files or /public path segment
IsAssetUrl(u) == Contains(u, "/files") \/ Contains(u, "/public")

\* A page text: URLs in href attributes, URLs in data-url attributes, URLs in
\* visible element text, a bare mention of the brand name in element text,
\* an age-verification phrase.
Body(h, d, m, a) == [href |-> h, data |-> d, text |-> {}, mention |-> m, age |-> a]

B_EMPTY   == Body({OTHER_URL}, {}, FALSE, FALSE)
B_ALICE   == Body({OF_ALICE, OTHER_URL}, {}, FALSE, FALSE)
B_MIXED   == Body({OF_MIXED}, {}, FALSE, FALSE)
B_FILES   == Body({OF_ALICE, OF_FILES}, {}, FALSE, FALSE)
B_DATA    == Body({}, {OF_MIXED}, FALSE, FALSE)
B_MENTION == Body({OTHER_URL}, {}, TRUE, FALSE)
B_AGE     == Body({}, {}, FALSE, TRUE)

Bodies == {B_EMPTY, B_ALICE, B_MIXED, B_FILES, B_DATA, B_MENTION, B_AGE}

\* response.text.lower()
LowerText(b) == [b EXCEPT !.href = {Lower(u) : u \in b.href},
                          !.data = {Lower(u) : u \in b.data},
                          !.text = {Lower(u) : u \in b.text}]

\* re.findall(r'https?://[^\s<>"\']*onlyfans\.com[^\s<>"\']*', text, re.IGNORECASE)
FindOfUrls(b) == {u \in b.href \cup b.data \cup b.text : MatchesOfRegex(u)}

\* 'onlyfans' in content.lower()
MentionsOnlyfans(b) == b.mention \/ FindOfUrls(b) # {}

(***************************************************************************)
(* Targets                                                                 *)
(***************************************************************************)
T_LINKME  == "https://link.me/kayla"
T_BEACONS == "https://beacons.ai/roberta"
T_XLI     == "https://xli.ink/michelle"
T_OTHER   == "https://juicy.bio/missavan"
T_QUERY   == "https://juicy.bio/go?to=link.me"

Targets == {T_LINKME, T_BEACONS, T_XLI, T_OTHER, T_QUERY}

\* What a caller can pass for bio_link besides a URL: the empty str, and
\* JSON values that are no str (written as their JSON text).
EMPTY_STR  == ""
JSON_DICT  == "{\"name\": \"kayla\"}"
JSON_NUM   == "7"
NonStrings == {JSON_DICT, JSON_NUM}

IsStr(b) == b \notin NonStrings

\* "link.me" in bio_link.lower(), and the like (the targets are lower case)
HasLinkme(u)  == Contains(u, "link.me")
HasBeacons(u) == Contains(u, "beacons.ai")
HasXli(u)     == Contains(u, "xli.ink")

(***************************************************************************)
(* Server answers                                                          *)
(***************************************************************************)
NoLocation == "<none>"
LOC_PATH   == "/next"
LOC_ABS    == "https://hop.example/r"
LOC_REL    == "next"

Answer(k, s, l, b, f) ==
    [kind |-> k, status |-> s, location |-> l, body |-> b, button |-> f]

NoResp == Answer("none", 0, NoLocation, B_EMPTY, FALSE)
\* the awaited operation raised (timeout, connection error, browser error)
Exc    == Answer("exc", 0, NoLocation, B_EMPTY, FALSE)
Http(s, l, b) == Answer("http", s, l, b, FALSE)

\* the answers an HTTP GET can get: a transport failure, or a status line
\* with headers and body
Responses ==
    {Exc}
    \cup {Http(200, NoLocation, b) : b \in Bodies}
    \cup {Http(403, NoLocation, B_EMPTY)}

\* where the code tells 403 from the other statuses
ResponsesWith500 == Responses \cup {Http(500, NoLocation, B_EMPTY)}

IsRedirect(r) == r.status \in {301, 302, 303, 307, 308}

\* index of the first "/" of s at or after k, Len(s) + 1 when there is none
RECURSIVE SlashFrom(_, _)
SlashFrom(s, k) ==
    IF k > Len(s) THEN Len(s) + 1
    ELSE IF SubSeq(s, k, k) = "/" THEN k
    ELSE SlashFrom(s, k + 1)

\* scheme and host of an absolute URL ("https://" is 8 characters)
Origin(u) == SubSeq(u, 1, SlashFrom(u, 9) - 1)

\* The Location header a URL of the site redirects with: the target with an
\* absolute path, that path with an absolute URL, and the absolute URL with
\* a path-relative reference.
SiteMap(url) ==
    IF url = LOC_ABS THEN LOC_REL
    ELSE IF url = Origin(url) \o LOC_PATH THEN LOC_ABS
    ELSE LOC_PATH

\* the answers to a GET of url: redirects with and without a Location header
ResponsesAt(url) ==
    Responses \cup {Http(302, SiteMap(url), B_EMPTY), Http(302, NoLocation, B_EMPTY)}

\* urllib.parse.urljoin(base, location); the paths here have one segment
urljoin(base, location) ==
    IF StartsWith(location, "http") THEN location
    ELSE IF StartsWith(location, "/") THEN Origin(base) \o location
    ELSE Origin(base) \o "/" \o location

(***************************************************************************)
(* self.results                                                            *)
(***************************************************************************)
Note(msg, n, s) == [msg |-> msg, n |-> n, s |-> s]
N(msg) == Note(msg, 0, "")

FreshResults ==
    [has_onlyfans |-> FALSE, onlyfans_urls |-> {}, detection_method |-> "None",
     debug_info |-> <<>>, errors |-> <<>>, age_verification_detected |-> "absent"]

Debug(res, note) == [res EXCEPT !.debug_info = Append(@, note)]
Error(res, msg)  == [res EXCEPT !.errors = Append(@, msg)]
\* self.results["has_onlyfans"] = True; self.results["onlyfans_urls"] = list(set(urls))
Found(res, urls) == [res EXCEPT !.has_onlyfans = TRUE, !.onlyfans_urls = urls]
\* self.results.get("age_verification_detected", False)
AgeFlag(res) == res.age_verification_detected = "true"

Range(s) == {s[k] : k \in 1..Len(s)}

max_redirects == 5

(***************************************************************************)
(* Suspension and return                                                   *)
(***************************************************************************)
\* the locals of the strategies (the browser is set by each action)
Locals(url, cnt, idx, found, ind) ==
    /\ current_url' = url /\ redirect_count' = cnt /\ i' = idx
    /\ onlyfans_found' = found /\ indicators' = ind

\* the strategy locals while no strategy uses them
IdleLocals == Locals("", 0, 0, NoLocation, "unbound")

\* the next pass of an identity loop
NextPass == Locals(current_url, redirect_count, i + 1, onlyfans_found, indicators)

\* history: the awaited operation raised, or the code run after it did
Raising(also) == raised' = (raised \/ resp.kind = "exc" \/ also)

\* the awaits whose code handles an error status as it handles a page
\* without evidence, or (redirects_get) by sending the request again
StatusBlind ==
    {"phase1_get", "redirects_get", "user_agents_get", "link_extraction_get",
     "final_fallback_get",
     "e_phase1_get", "e_redirects_get", "e_user_agents_get", "e_advanced_get",
     "e_link_extraction_get", "e_paths_get", "e_js_get", "e_mobile_get",
     "e_mobile_extraction_get"}

\* the awaits whose code tells 403 from the other error statuses only
Only403 == {"desperate_get", "beacons_alternative_get"}

\* The plain outcomes of the operation awaited at p: the operation worked,
\* the request was answered with a page, with a redirect to follow, or with
\* a status the code at p does not look at, the page has no optional element.
IsPlain(p, r) ==
    \/ r.kind \in {"none", "ok", "absent"}
    \/ r.kind = "http" /\ (r.status = 200 \/ r.location # NoLocation)
    \/ r.kind = "http" /\ p \in StatusBlind
    \/ r.kind = "http" /\ p \in Only403 /\ r.status # 403
    \/ r.kind = "page" /\ ~r.button /\ r.location = NoLocation

\* history: the outcome being handled is counted unless it is plain
Counted == faults' = IF IsPlain(pc, resp) THEN faults ELSE faults + 1

\* How a site answers: "any" is a site that answers each request as it
\* likes; the others answer every request the same way: "down" with a
\* transport error, "plain" with a page without evidence, "profile" with a
\* page that links the profile.
Scripts == {"down", "plain", "profile"}

\* a str that httpx can send a request to
IsTarget(b) == b \in Targets

\* the site bio_link names; a request to anything but a URL raises
ScriptOf(b) == IF IsTarget(b) THEN server[b] ELSE "down"

\* the answers of a site that answers every request the same way
Scripted(script, p, answers) ==
    CASE script = "down"    -> {r \in answers : r.kind = "exc"}
      [] script = "plain"   -> {r \in answers : IsPlain(p, r) /\ r.body = B_EMPTY
                                                /\ r.status \in {0, 200}}
      [] script = "profile" -> {r \in answers : IsPlain(p, r) /\ r.status \in {0, 200}
                                                /\ (r.kind \in {"http", "page"} => r.body = B_ALICE)}

\* suspend at p on an operation whose outcome is one of answers
Suspend(p, answers, parity) ==
    /\ pc' = p /\ again' = parity
    /\ resp' \in IF ScriptOf(bio_link) # "any" THEN Scripted(ScriptOf(bio_link), p, answers)
                 ELSE IF faults' < MaxFaults THEN answers
                 ELSE {r \in answers : IsPlain(p, r)}

\* the wall-clock time a call has taken is counted in awaited operations, up
\* to Ceiling of them
Ceiling == 8

Tick == clock' = IF clock < Ceiling THEN clock + 1 ELSE clock

\* the call is resumed: the operation it awaited has finished
Resumed == Tick /\ UNCHANGED callers /\ UNCHANGED depth

\* suspend on an operation that was not awaited in the step before
Await(p, answers) == Suspend(p, answers, 0)

\* suspend on an HTTP GET: the server answers with any response
AwaitGet(p) == Await(p, Responses)

\* suspend on the GET of a hop of the redirect chain
AwaitHop(url) == Await("redirects_get", ResponsesAt(url))


\* detect_onlyfans returns self.results
Return(res, st, rt) ==
    /\ results' = res /\ started' = st /\ returned' = rt
    /\ pc' = "done" /\ resp' = NoResp /\ IdleLocals /\ again' = 0
    /\ Raising(FALSE)

(***************************************************************************)
(* Phase 5: _desperate_mode_extraction                                     *)
(***************************************************************************)
DesperateApproaches == 3

\* lines 158-164: no phase matched
AllCompleted(res, st, rt) ==
    Return(Debug(res, N("All phases completed - no OnlyFans found")), st, rt)

\* lines 152-154, 329 and the first pass of the loop up to client.get
EnterPhase5(res, st, rt) ==
    /\ results' = Debug(Debug(Debug(res,
                      N("Phase 5: Desperate mode extraction")),
                      N("Desperate mode: Trying aggressive extraction...")),
                      Note("Desperate approach", 1, ""))
    /\ started' = Append(st, "Phase 5") /\ returned' = rt /\ raised' = FALSE
    /\ Locals("", 0, 1, NoLocation, "unbound")
    /\ Await("desperate_get", ResponsesWith500)

\* variant: a phase returned True and the pipeline goes on with Phase 5
MatchedGoesOn(res, method) ==
    EnterPhase5([res EXCEPT !.detection_method = method], started, Append(returned, TRUE))

\* a phase returned True: detection_method is set and the result returned
Matched(res, method) ==
    Return([res EXCEPT !.detection_method = method], started, Append(returned, TRUE))

\* lines 358-388: what one answer adds to self.results when it is no match
DesperateNoMatch(res, r, k) ==
    IF r.kind = "exc" THEN Debug(res, Note("Approach failed", k, ""))
    ELSE IF r.status = 200 THEN res
    ELSE IF r.status = 403 THEN Debug(res, Note("Approach blocked (403)", k, ""))
    ELSE IF AgeFlag(res) THEN Debug(res, Note("Approach status", k, ToString(r.status)))
    ELSE res

\* lines 364-379: 'onlyfans' occurs in the content
DesperateExtract(res, r, k) ==
    LET res1 == Debug(res, Note("OnlyFans found in approach, extracting...", k, ""))
        of_urls == FindOfUrls(r.body)
    IN  IF of_urls # {}
        THEN Debug(Found(res1, of_urls), N("Found OnlyFans URLs in desperate mode"))
        ELSE Debug(Found(res1, {DETECTED}), N("OnlyFans confirmed to exist in desperate mode"))

\* _desperate_mode_extraction resumes with the answer to approach i
DesperateMode ==
    /\ pc = "desperate_get"
    /\ Counted
    /\ Resumed
    /\ UNCHANGED <<bio_link, PLAYWRIGHT_AVAILABLE, browser>>
    /\ IF resp.kind = "http" /\ resp.status = 200 /\ MentionsOnlyfans(resp.body)
       THEN Matched(DesperateExtract(results, resp, i), "Phase 5: Desperate mode extraction")
       ELSE LET res1 == DesperateNoMatch(results, resp, i)
            IN  IF i < DesperateApproaches
                THEN /\ results' = Debug(res1, Note("Desperate approach", i + 1, ""))
                     /\ NextPass
                     /\ Await("desperate_get", ResponsesWith500)
                     /\ Raising(FALSE)
                     /\ UNCHANGED <<started, returned>>
                ELSE AllCompleted(res1, started, Append(returned, FALSE))

(***************************************************************************)
(* Phase 4: _final_fallback_extraction                                     *)
(***************************************************************************)
FallbackHeaders == 2

\* variant: Phase 4 starts without its note in debug_info
EnterPhase4Silent(res, st, rt) ==
    /\ results' = res
    /\ started' = Append(st, "Phase 4") /\ returned' = rt /\ raised' = FALSE
    /\ Locals("", 0, 0, NoLocation, "unbound")
    /\ AwaitGet("final_fallback_get")

\* lines 146-148 and the first pass of the loop up to client.get
EnterPhase4(res, st, rt) ==
    /\ results' = Debug(res, N("Phase 4: Final fallback extraction"))
    /\ started' = Append(st, "Phase 4") /\ returned' = rt /\ raised' = FALSE
    /\ Locals("", 0, 0, NoLocation, "unbound")
    /\ AwaitGet("final_fallback_get")

\* variant: a bare mention is reported with the (empty) list of URLs found
FallbackExtractBare(res, r, k) ==
    LET res1 == Debug(res, Note("OnlyFans found in approach, extracting...", k, ""))
    IN  Debug(Found(res1, FindOfUrls(r.body)), N("Found OnlyFans URLs in fallback extraction"))

\* lines 268-284: 'onlyfans' occurs in the content
FallbackExtract(res, r, k) ==
    LET res1 == Debug(res, Note("OnlyFans found in approach, extracting...", k, ""))
        of_urls == FindOfUrls(r.body)
    IN  IF of_urls # {}
        THEN Debug(Found(res1, of_urls), N("Found OnlyFans URLs in fallback extraction"))
        ELSE Debug(Found(res1, {DETECTED}), N("OnlyFans confirmed to exist in content"))

\* _final_fallback_extraction resumes with the answer to headers_list[i];
\* an exception of the request is dropped (line 286: continue)
FinalFallback ==
    /\ pc = "final_fallback_get"
    /\ Counted
    /\ Resumed
    /\ UNCHANGED <<bio_link, PLAYWRIGHT_AVAILABLE, browser>>
    /\ IF resp.kind = "http" /\ resp.status = 200 /\ MentionsOnlyfans(resp.body)
       THEN Matched(FallbackExtract(results, resp, i), "Phase 4: Final fallback extraction")
       ELSE IF i + 1 < FallbackHeaders
            THEN /\ NextPass
                 /\ AwaitGet("final_fallback_get")
                 /\ Raising(FALSE)
                 /\ UNCHANGED <<results, started, returned>>
            ELSE EnterPhase5(results, started, Append(returned, FALSE))

(***************************************************************************)
(* Phase 3.5: _handle_linkme_fallback                                      *)
(***************************************************************************)
Bool(b) == IF b THEN "True" ELSE "False"

AppendAll(res, notes) == [res EXCEPT !.debug_info = @ \o notes]

\* lines 139-148: the link.me fallback runs when "link.me" occurs in the URL
EnterPhase35(res, st, rt) ==
    /\ results' = AppendAll(res, <<N("Phase 3.5: Special link.me fallback detection"),
                                   Note("=== DEBUGGING", 0, bio_link)>>)
    /\ started' = Append(st, "Phase 3.5") /\ returned' = rt /\ raised' = FALSE
    /\ Locals("", 0, 1, NoLocation, "unbound")
    /\ AwaitGet("linkme_fallback_get")

\* line 139; bio_link.lower() raises when bio_link is no str, and the
\* handler of detect_onlyfans (lines 161-164) records it
AfterPhase3(res, st, rt) ==
    IF ~IsStr(bio_link) THEN Return(Error(res, "Detection failed"), st, rt)
    ELSE IF HasLinkme(bio_link) THEN EnterPhase35(res, st, rt)
    ELSE EnterPhase4(res, st, rt)

\* lines 729-750: one note per detection pattern that matches the content
PatternNotes(b) ==
    (IF FindOfUrls(b) # {}
        THEN <<Note("Pattern found matches", 1, ""), Note("Pattern found matches", 2, "")>>
        ELSE <<>>)
    \o (IF \E u \in b.data : Contains(Lower(u), "onlyfans")
        THEN <<Note("Pattern found matches", 3, "")>> ELSE <<>>)
    \o (IF FindOfUrls(b) # {} THEN <<Note("Pattern found matches", 5, "")>> ELSE <<>>)
    \o (IF MentionsOnlyfans(b)
        THEN <<Note("Pattern found matches", 6, ""), Note("Pattern found matches", 7, "")>>
        ELSE <<>>)

\* lines 686-726 for a 200 answer: the loop of lines 710-713 has no test left,
\* so age_verification_found is True for every content, and the flag is stored
FallbackDiagnose(res, b) ==
    [AppendAll(res, <<Note("Contains 'onlyfans' (case-insensitive)", 0, Bool(MentionsOnlyfans(b))),
                      Note("Age verification indicators found", 0, "True"),
                      N("Found indicators"),
                      Note("Overall age verification detected", 0, "True"),
                      N("Raw HTML preview")>> \o PatternNotes(b))
        EXCEPT !.age_verification_detected = "true"]

\* variant: the mention is reported in debug_info only
FallbackConfirmNoted(res, b) ==
    AppendAll(res, <<N("OnlyFans found in link.me content via fallback"), N("=== END DEBUG ===")>>)

\* lines 753-770
FallbackConfirm(res, b) ==
    LET res1 == Debug(res, N("OnlyFans found in link.me content via fallback"))
        of_urls == FindOfUrls(b)
    IN  IF of_urls # {}
        THEN AppendAll(Found(res1, of_urls),
                       <<N("Found OnlyFans URLs in link.me fallback"), N("=== END DEBUG ===")>>)
        ELSE AppendAll(Found(res1, {DETECTED}),
                       <<N("OnlyFans confirmed in link.me via fallback"), N("=== END DEBUG ===")>>)

\* lines 844-848: the handler of the strategy
FallbackFailed(res) ==
    Debug(Error(res, "Link.me fallback detection failed"), N("=== END DEBUG ==="))

FallbackResponseNotes(r) ==
    <<Note("Response status", r.status, ""), N("Response length"), N("Content-Type")>>

\* the notes that open strategies 2 and 3, and the names of their notes
FallbackOpening(k) ==
    IF k = 2 THEN N("Trying mobile user agent approach...")
    ELSE N("Trying different referrer approach...")

FallbackApproach(k) == IF k = 2 THEN "Mobile approach" ELSE "Referrer approach"

\* strategy 1 resumes with the answer to the first request (lines 683-783)
LinkmeFallbackFirst ==
    /\ pc = "linkme_fallback_get" /\ i = 1
    /\ Counted
    /\ Resumed
    /\ UNCHANGED <<bio_link, PLAYWRIGHT_AVAILABLE, browser>>
    /\ IF resp.kind = "exc"
       THEN EnterPhase4(FallbackFailed(results), started, Append(returned, FALSE))
       ELSE LET res1 == AppendAll(results, FallbackResponseNotes(resp))
                res2 == FallbackDiagnose(res1, resp.body)
            IN  IF resp.status = 200 /\ MentionsOnlyfans(resp.body)
                THEN Matched(FallbackConfirm(res2, resp.body), "Phase 3.5: Special link.me fallback")
                ELSE /\ results' =
                          IF resp.status = 200
                          THEN AppendAll(res2, <<N("No OnlyFans mention found in content"),
                                                 FallbackOpening(2)>>)
                          ELSE Debug(res1, FallbackOpening(2))
                     /\ Locals("", 0, 2, NoLocation,
                               IF resp.status = 200 THEN "bound" ELSE "unbound")
                     /\ AwaitGet("linkme_fallback_get")
                     /\ Raising(FALSE)
                     /\ UNCHANGED <<started, returned>>

\* strategies 2 and 3 resume with their answer (lines 791-842);
\* age_verification_indicators is assigned only inside the 200 branch of
\* strategy 1, so reading it raises NameError when that branch did not run
LinkmeFallbackRetry ==
    /\ pc = "linkme_fallback_get" /\ i \in {2, 3}
    /\ Counted
    /\ Resumed
    /\ UNCHANGED <<bio_link, PLAYWRIGHT_AVAILABLE, browser>>
    /\ LET ok == resp.kind = "http" /\ resp.status = 200
           name_error == ok /\ indicators = "unbound"
           res1 == IF ok
                   THEN Debug(results, Note(FallbackApproach(i) \o " - Contains 'onlyfans'", 0,
                                            Bool(MentionsOnlyfans(resp.body))))
                   ELSE results
           res2 == Debug(res1, Note(FallbackApproach(i) \o " - Age verification detected", 0,
                                    Bool(resp.body.age)))
       IN  IF resp.kind = "exc" \/ name_error
           THEN EnterPhase4(FallbackFailed(res1), started, Append(returned, FALSE))
           ELSE IF ok /\ (MentionsOnlyfans(resp.body) \/ resp.body.age)
           THEN Matched(Debug(Found(res2, {DETECTED}), N("=== END DEBUG ===")),
                        "Phase 3.5: Special link.me fallback")
           ELSE LET res3 == IF ok THEN res2 ELSE res1
                IN  IF i = 2
                    THEN /\ results' = Debug(res3, FallbackOpening(3))
                         /\ NextPass
                         /\ AwaitGet("linkme_fallback_get")
                         /\ Raising(FALSE)
                         /\ UNCHANGED <<started, returned>>
                    ELSE EnterPhase4(Debug(res3, N("=== END DEBUG ===")),
                                     started, Append(returned, FALSE))

(***************************************************************************)
(* Phase 3: _phase3_interactive_detection and its strategies               *)
(***************************************************************************)
Ok == Answer("ok", 0, NoLocation, B_EMPTY, FALSE)
Absent == Answer("absent", 0, NoLocation, B_EMPTY, FALSE)
Page(b, l, f) == Answer("page", 0, l, b, f)

B_TEXT == [href |-> {}, data |-> {}, text |-> {OF_ALICE}, mention |-> TRUE, age |-> FALSE]

\* a browser operation succeeds or raises
BrowserOps == {Ok, Exc}

\* Location headers of the 3xx responses a page load can show to page.on
CapturedLocations == {NoLocation, OF_ALICE, OF_FILES, OF_PUBLIC}

\* lines 210-232: the strategy is chosen by substring tests on the whole URL;
\* the generic strategy stands behind a test of age_verification_detected
StrategyOf(url, res) ==
    IF HasLinkme(url) THEN "linkme"
    ELSE IF HasBeacons(url) THEN "beacons"
    ELSE IF HasXli(url) THEN "xli"
    ELSE IF AgeFlag(res) THEN "generic"
    ELSE "none"

\* the strategy that is running while the call is inside phase 3
Running == IF StrategyOf(bio_link, results) = "none" THEN "generic"
           ELSE StrategyOf(bio_link, results)

\* what goto, the waits and page.content() can give: an exception, or the
\* rendered page with the redirect seen while loading (link.me only) and
\* whether the optional first step worked (link.me: cookie button clicked,
\* beacons.ai: homepage visited)
PageLoads(strategy) ==
    {Exc}
    \cup {Page(b, NoLocation, FALSE) : b \in Bodies}
    \cup (IF strategy = "linkme"
          THEN {Page(B_EMPTY, l, TRUE) : l \in CapturedLocations} ELSE {})
    \cup (IF strategy = "beacons" THEN {Page(B_EMPTY, NoLocation, TRUE)} ELSE {})

AwaitBrowser(p) == Await(p, BrowserOps)

FailureText(strategy) ==
    CASE strategy = "linkme"  -> "Link.me interactive detection failed"
      [] strategy = "beacons" -> "Beacons.ai interactive detection failed"
      [] strategy = "xli"     -> "Xli.ink interactive detection failed"
      [] OTHER                -> "Generic interactive detection failed"

LoadingNote(strategy) ==
    CASE strategy = "linkme"  -> N("Loading link.me page...")
      [] strategy = "beacons" -> N("Loading beacons.ai page with aggressive human-like behavior...")
      [] strategy = "xli"     -> N("Loading xli.ink page...")
      [] OTHER                -> N("Generic interactive detection...")

\* _phase3_interactive_detection returns False (lines 224, 237)
Phase3Failed(res) == AfterPhase3(res, started, Append(returned, FALSE))

\* lines 220-221, 992, 1031-1036: the HTTP alternative for beacons.ai
EnterBeaconsAlternative(res) ==
    /\ results' = AppendAll(res, <<N("Interactive approach failed, trying alternative method..."),
                                   N("Trying alternative approach for beacons.ai..."),
                                   Note("Alternative approach for beacons.ai...", 1, "")>>)
    /\ Locals("", 0, 1, NoLocation, "unbound")
    /\ Await("beacons_alternative_get", ResponsesWith500)
    /\ Raising(FALSE)
    /\ UNCHANGED <<started, returned>>

\* an interactive strategy returned False
StrategyFalse(res) ==
    IF Running = "beacons" THEN EnterBeaconsAlternative(res) ELSE Phase3Failed(res)

\* the except clause of an interactive strategy (lines 654, 984, 1100, 1135)
StrategyRaised(res) == StrategyFalse(Error(res, FailureText(Running)))

\* lines 130-137: phase 3 is entered when Playwright was imported; the note
\* of the skip stands behind a test of age_verification_detected
EnterPhase3(res, st, rt) ==
    IF PLAYWRIGHT_AVAILABLE
    THEN LET res1 == Debug(res, N("Phase 3: Interactive detection with Playwright"))
         IN  IF StrategyOf(bio_link, res) = "none"
             THEN AfterPhase3(res1, Append(st, "Phase 3"), Append(rt, FALSE))
             ELSE /\ results' = res1
                  /\ started' = Append(st, "Phase 3") /\ returned' = rt /\ raised' = FALSE
                  /\ IdleLocals
                  /\ AwaitBrowser("launch")
    ELSE IF AgeFlag(res)
         THEN AfterPhase3(Debug(res, N("Phase 3: Skipped (Playwright not available)")), st, rt)
         ELSE AfterPhase3(res, st, rt)

\* the action stays inside the running phase
Inside == Raising(FALSE) /\ UNCHANGED <<bio_link, PLAYWRIGHT_AVAILABLE, started, returned>>

KeepLocals == UNCHANGED <<current_url, redirect_count, i, onlyfans_found, indicators>>

\* variant: the strategy gives up when the first launch fails
LaunchGivesUp ==
    /\ pc = "launch"
    /\ Counted
    /\ Resumed
    /\ UNCHANGED <<bio_link, PLAYWRIGHT_AVAILABLE>>
    /\ IF resp.kind = "ok"
       THEN /\ results' = Debug(results, N("Browser launched with Railway-optimized settings"))
            /\ browser' = "open"
            /\ AwaitBrowser("new_page")
            /\ Raising(FALSE) /\ KeepLocals /\ UNCHANGED <<started, returned>>
       ELSE /\ StrategyRaised(Debug(results, N("Railway-optimized launch failed")))
            /\ UNCHANGED browser

\* _launch_browser_safely, first launch (lines 296-313)
Launch ==
    /\ pc = "launch"
    /\ Counted
    /\ Resumed
    /\ Inside /\ KeepLocals
    /\ IF resp.kind = "ok"
       THEN /\ results' = Debug(results, N("Browser launched with Railway-optimized settings"))
            /\ browser' = "open"
            /\ AwaitBrowser("new_page")
       ELSE /\ results' = Debug(results, N("Railway-optimized launch failed"))
            /\ UNCHANGED browser
            /\ AwaitBrowser("launch_fallback")

\* _launch_browser_safely, second launch (lines 314-324)
LaunchFallback ==
    /\ pc = "launch_fallback"
    /\ Counted
    /\ Resumed
    /\ UNCHANGED <<bio_link, PLAYWRIGHT_AVAILABLE>>
    /\ IF resp.kind = "ok"
       THEN /\ results' = Debug(results, N("Browser launched with fallback settings"))
            /\ browser' = "open"
            /\ AwaitBrowser("new_page")
            /\ Raising(FALSE) /\ KeepLocals /\ UNCHANGED <<started, returned>>
       ELSE /\ StrategyRaised(Debug(results, N("Fallback launch also failed")))
            /\ UNCHANGED browser

\* browser.new_context() and context.new_page(), outside the try/finally
\* that closes the browser (lines 531-532, 858-879, 1069-1070, 1112-1113)
NewPage ==
    /\ pc = "new_page"
    /\ Counted
    /\ Resumed
    /\ UNCHANGED <<bio_link, PLAYWRIGHT_AVAILABLE, browser>>
    /\ IF resp.kind = "ok"
       THEN /\ results' = Debug(results, LoadingNote(Running))
            /\ Await("goto", PageLoads(Running))
            /\ Raising(FALSE) /\ KeepLocals /\ UNCHANGED <<started, returned>>
       ELSE StrategyRaised(results)

\* handle_response of _handle_linkme_interactive (lines 537-543)
Captured(location) ==
    IF Contains(Lower(location), "onlyfans.com") /\ ~Contains(location, "/files")
    THEN location ELSE NoLocation

ClickOutcomes ==
    {Exc, Absent, Page(B_EMPTY, bio_link, FALSE), Page(B_EMPTY, bio_link, TRUE),
     Page(B_EMPTY, OF_ALICE, TRUE), Page(B_EMPTY, OF_PUBLIC, TRUE)}

TextOutcomes == {Exc} \cup {Page(b, NoLocation, FALSE) : b \in {B_EMPTY, B_MENTION, B_TEXT}}

Rechecks == {Exc} \cup {Page(b, NoLocation, FALSE) : b \in Bodies}

\* what the page load adds before the content is scanned
LoadNotes(strategy, r) ==
    (IF strategy = "linkme" /\ Captured(r.location) # NoLocation
        THEN <<Note("OnlyFans redirect captured", 0, r.location)>> ELSE <<>>)
    \o (IF strategy = "linkme" /\ r.button THEN <<N("Cookies accepted")>> ELSE <<>>)
    \o (IF strategy = "beacons" /\ r.button
        THEN <<N("Visited homepage to establish session")>> ELSE <<>>)

\* the scan of page.content() of each strategy (lines 563-578, 942-950,
\* 1080-1095, 1123-1130): the result when the page matches
ContentMatch(strategy, res, b) ==
    IF strategy = "beacons"
    THEN Debug(Found(res, {DETECTED}), N("OnlyFans detected in beacons.ai content"))
    ELSE IF FindOfUrls(b) # {}
    THEN IF strategy = "linkme"
         THEN Debug(Found(res, FindOfUrls(b)), N("Found OnlyFans URLs directly in page content"))
         ELSE Found(res, FindOfUrls(b))
    ELSE IF strategy = "linkme"
    THEN Debug(Found(res, {DETECTED}), N("OnlyFans detected in page content"))
    ELSE Debug(Found(res, {DETECTED}), N("OnlyFans detected in xli.ink content"))

ContentMatches(strategy, b) ==
    IF strategy = "generic" THEN FindOfUrls(b) # {} ELSE MentionsOnlyfans(b)

\* the strategy resumes with the loaded page
PageLoaded ==
    /\ pc = "goto"
    /\ Counted
    /\ Resumed
    /\ Inside /\ UNCHANGED <<browser, current_url, redirect_count, i, indicators>>
    /\ IF resp.kind = "exc"
       THEN /\ AwaitBrowser("finally_raise")
            /\ UNCHANGED <<results, onlyfans_found>>
       ELSE LET res1 == AppendAll(results, LoadNotes(Running, resp))
            IN  /\ onlyfans_found' = IF Running = "linkme" THEN Captured(resp.location)
                                     ELSE NoLocation
                /\ IF ContentMatches(Running, resp.body)
                   THEN /\ results' = ContentMatch(Running, res1, resp.body)
                        /\ AwaitBrowser("close_matched")
                   ELSE IF Running = "linkme"
                   THEN /\ results' = res1
                        /\ Await("linkme_click", ClickOutcomes)
                   ELSE IF Running = "beacons"
                   THEN /\ results' = Debug(res1,
                               N("No OnlyFans found, trying more aggressive human-like behavior..."))
                        /\ Await("beacons_recheck", Rechecks)
                   ELSE /\ results' = res1
                        /\ AwaitBrowser("finally_false")

\* _handle_linkme_interactive, the click on the container and on a Continue
\* button (lines 580-623)
LinkmeClick ==
    /\ pc = "linkme_click"
    /\ Counted
    /\ Resumed
    /\ Inside /\ UNCHANGED <<browser, current_url, redirect_count, i, indicators>>
    /\ IF resp.kind = "exc"
       THEN /\ AwaitBrowser("finally_raise")
            /\ UNCHANGED <<results, onlyfans_found>>
       ELSE IF resp.kind = "absent"
       THEN /\ Await("linkme_text", TextOutcomes)
            /\ UNCHANGED <<results, onlyfans_found>>
       ELSE LET res1 == AppendAll(results, <<N("Found OnlyFans container, clicking...")>>
                            \o IF resp.button THEN <<N("Continue button clicked")>> ELSE <<>>)
                found == IF resp.button /\ Contains(Lower(resp.location), "onlyfans.com")
                         THEN resp.location ELSE onlyfans_found
            IN  /\ onlyfans_found' = found
                /\ IF found # NoLocation
                   THEN /\ results' = Found(res1, {found})
                        /\ AwaitBrowser("close_matched")
                   ELSE /\ results' = res1
                        /\ Await("linkme_text", TextOutcomes)

\* _handle_linkme_interactive, the text of the elements that name the brand
\* (lines 625-649)
LinkmeText ==
    /\ pc = "linkme_text"
    /\ Counted
    /\ Resumed
    /\ Inside /\ KeepLocals /\ UNCHANGED browser
    /\ IF resp.kind = "exc"
       THEN /\ results' = Debug(results, N("Text extraction failed"))
            /\ AwaitBrowser("finally_false")
       ELSE LET urls == {u \in resp.body.text : MatchesOfRegex(u)}
                res1 == IF resp.body.mention
                        THEN Debug(results, N("Found OnlyFans text elements, extracting..."))
                        ELSE results
            IN  IF resp.body.mention /\ urls # {}
                THEN /\ results' = Debug(Found(res1, urls), N("Found OnlyFans URLs in text elements"))
                     /\ AwaitBrowser("close_matched_text")
                ELSE /\ results' = res1
                     /\ AwaitBrowser("finally_false")

\* _handle_beacons_interactive, the second scan (lines 953-979)
BeaconsRecheck ==
    /\ pc = "beacons_recheck"
    /\ Counted
    /\ Resumed
    /\ Inside /\ KeepLocals /\ UNCHANGED browser
    /\ IF resp.kind = "exc"
       THEN /\ AwaitBrowser("finally_raise")
            /\ UNCHANGED results
       ELSE IF MentionsOnlyfans(resp.body)
       THEN /\ results' = Debug(Found(results, {DETECTED}),
                                N("OnlyFans detected after aggressive behavior"))
            /\ AwaitBrowser("close_matched")
       ELSE /\ AwaitBrowser("finally_false")
            /\ UNCHANGED results

\* await browser.close() before return True; inside the loop over the text
\* elements a bare except swallows its exception (line 645)
CloseMatched ==
    /\ pc \in {"close_matched", "close_matched_text"}
    /\ Counted
    /\ Resumed
    /\ Inside /\ KeepLocals /\ UNCHANGED results
    /\ IF resp.kind = "ok"
       THEN browser' = "closed" /\ AwaitBrowser("finally_true")
       ELSE /\ UNCHANGED browser
            /\ IF pc = "close_matched" THEN AwaitBrowser("finally_raise")
               ELSE AwaitBrowser("finally_false")

\* finally: await browser.close(), then the strategy returns or its except
\* clause runs (lines 651-657)
Finally ==
    /\ pc \in {"finally_true", "finally_false", "finally_raise"}
    /\ Counted
    /\ Resumed
    /\ UNCHANGED <<bio_link, PLAYWRIGHT_AVAILABLE>>
    /\ browser' = IF resp.kind = "ok" THEN "closed" ELSE browser
    /\ IF resp.kind = "exc" \/ pc = "finally_raise"
       THEN StrategyRaised(results)
       ELSE IF pc = "finally_true"
       THEN Matched(results, "Phase 3: Interactive Playwright detection")
       ELSE StrategyFalse(results)

BeaconsApproaches == 3

\* lines 1036-1055: what one answer adds when it is no match
AlternativeNoMatch(res, r, k) ==
    IF r.kind = "exc" THEN Debug(res, Note("Alternative approach failed", k, ""))
    ELSE IF r.status = 200 THEN res
    ELSE IF r.status = 403 THEN Debug(res, Note("Alternative approach blocked (403)", k, ""))
    ELSE IF AgeFlag(res) THEN Debug(res, Note("Alternative approach status", k, ToString(r.status)))
    ELSE res

\* _handle_beacons_alternative resumes with the answer to approach i
BeaconsAlternative ==
    /\ pc = "beacons_alternative_get"
    /\ Counted
    /\ Resumed
    /\ UNCHANGED <<bio_link, PLAYWRIGHT_AVAILABLE, browser>>
    /\ IF resp.kind = "http" /\ resp.status = 200 /\ MentionsOnlyfans(resp.body)
       THEN Matched(Debug(Found(results, {DETECTED}), Note("Alternative approach succeeded!", i, "")),
                    "Phase 3: Interactive Playwright detection")
       ELSE LET res1 == AlternativeNoMatch(results, resp, i)
            IN  IF i < BeaconsApproaches
                THEN /\ results' = Debug(res1, Note("Alternative approach for beacons.ai...", i + 1, ""))
                     /\ NextPass
                     /\ Await("beacons_alternative_get", ResponsesWith500)
                     /\ Raising(FALSE)
                     /\ UNCHANGED <<started, returned>>
                ELSE Phase3Failed(res1)

(***************************************************************************)
(* Phase 2: _phase2_enhanced_detection and its three strategies            *)
(***************************************************************************)
UserAgentCount == 4

\* _phase2_enhanced_detection returns False (line 204)
AfterPhase2(res) == EnterPhase3(res, started, Append(returned, FALSE))

\* strategy 3 starts (lines 198, 481-482)
EnterLinkExtraction(res) ==
    /\ results' = res
    /\ IdleLocals
    /\ AwaitGet("link_extraction_get")
    /\ Raising(FALSE)
    /\ UNCHANGED <<started, returned>>

\* lines 488-517: the first pattern with a match that holds a full URL wins;
\* of the four patterns the page texts here can match data-url (2) and
\* element text (4)
ExtractedLinks(b) ==
    LET in_data == {u \in b.data : MatchesOfRegex(u)}
        in_text == {u \in b.text : MatchesOfRegex(u)}
    IN  IF in_data # {} THEN [pattern |-> 2, urls |-> in_data]
        ELSE [pattern |-> 4, urls |-> in_text]

\* _enhanced_link_extraction resumes with its answer
LinkExtraction ==
    /\ pc = "link_extraction_get"
    /\ Counted
    /\ Resumed
    /\ UNCHANGED <<bio_link, PLAYWRIGHT_AVAILABLE, browser>>
    /\ IF resp.kind = "exc"
       THEN AfterPhase2(Error(results, "Enhanced link extraction failed"))
       ELSE IF resp.status = 200 /\ ExtractedLinks(resp.body).urls # {}
       THEN Matched(Debug(Found(results, ExtractedLinks(resp.body).urls),
                          Note("Found OnlyFans with pattern", ExtractedLinks(resp.body).pattern, "")),
                    "Phase 2: Enhanced HTTP strategies")
       ELSE AfterPhase2(results)

\* strategy 2 starts (lines 194, 454-458)
EnterUserAgents(res) ==
    /\ results' = res
    /\ Locals("", 0, 1, NoLocation, "unbound")
    /\ AwaitGet("user_agents_get")
    /\ Raising(FALSE)
    /\ UNCHANGED <<started, returned>>

\* _try_different_user_agents resumes with the answer to user_agents[i];
\* an exception of the request is dropped (line 470: continue)
UserAgents ==
    /\ pc = "user_agents_get"
    /\ Counted
    /\ Resumed
    /\ UNCHANGED <<bio_link, PLAYWRIGHT_AVAILABLE, browser>>
    /\ IF resp.kind = "http" /\ resp.status = 200 /\ FindOfUrls(LowerText(resp.body)) # {}
       THEN Matched(Debug(Found(results, FindOfUrls(LowerText(resp.body))),
                          Note("Found OnlyFans with User-Agent", i, "")),
                    "Phase 2: Enhanced HTTP strategies")
       ELSE IF i < UserAgentCount
       THEN /\ NextPass
            /\ AwaitGet("user_agents_get")
            /\ Raising(FALSE)
            /\ UNCHANGED <<results, started, returned>>
       ELSE EnterLinkExtraction(results)

\* lines 410-415: the URL of the next hop; a Location that starts neither
\* with "/" nor with "http" is joined only behind the test of
\* age_verification_detected
NextHop(res, url, location) ==
    IF StartsWith(location, "/") THEN urljoin(url, location)
    ELSE IF StartsWith(location, "http") THEN location
    ELSE IF AgeFlag(res) THEN urljoin(url, location)
    ELSE url

\* the while loop goes round with nothing changed: the same request again
RedirectsAgain ==
    /\ Suspend("redirects_get", ResponsesAt(current_url), 1 - again)
    /\ Raising(FALSE)
    /\ UNCHANGED <<results, current_url, redirect_count, i, onlyfans_found,
                   indicators, started, returned>>

\* _handle_redirects_better resumes with the answer to client.get(current_url)
\* (lines 403-442); the two break statements of lines 421 and 433 stand
\* behind a test of age_verification_detected
HandleRedirects ==
    /\ pc = "redirects_get"
    /\ Counted
    /\ Resumed
    /\ UNCHANGED <<bio_link, PLAYWRIGHT_AVAILABLE, browser>>
    /\ IF resp.kind = "exc"
       THEN EnterUserAgents(Error(results, "Redirect handling failed"))
       ELSE IF IsRedirect(resp)
       THEN IF resp.location # NoLocation
            THEN LET url == NextHop(results, current_url, resp.location)
                     res1 == Debug(results, Note("Redirect", redirect_count + 1, url))
                 IN  IF redirect_count + 1 < max_redirects
                     THEN /\ results' = res1
                          /\ Locals(url, redirect_count + 1, i, onlyfans_found, indicators)
                          /\ AwaitHop(url)
                          /\ Raising(FALSE)
                          /\ UNCHANGED <<started, returned>>
                     ELSE EnterUserAgents(res1)
            ELSE IF AgeFlag(results) THEN EnterUserAgents(results) ELSE RedirectsAgain
       ELSE IF resp.status = 200
       THEN IF FindOfUrls(LowerText(resp.body)) # {}
            THEN Matched(Debug(Found(results, FindOfUrls(LowerText(resp.body))),
                               Note("Found OnlyFans after redirects", redirect_count, "")),
                         "Phase 2: Enhanced HTTP strategies")
            ELSE EnterUserAgents(results)
       ELSE IF AgeFlag(results) THEN EnterUserAgents(results) ELSE RedirectsAgain

\* lines 124-126 and _handle_redirects_better up to its first request
EnterPhase2(res, st, rt) ==
    /\ results' = Debug(res, N("Phase 2: Enhanced HTTP detection"))
    /\ started' = Append(st, "Phase 2") /\ returned' = rt /\ raised' = FALSE
    /\ Locals(bio_link, 0, 0, NoLocation, "unbound")
    /\ AwaitHop(bio_link)

(***************************************************************************)
(* Phase 1: _phase1_fast_detection, and the entry of detect_onlyfans       *)
(***************************************************************************)
\* variant: the exception leaves _phase1_fast_detection and reaches the
\* handler of detect_onlyfans (lines 161-164)
Phase1Propagates(res) == Return(Error(res, "Detection failed"), started, returned)

\* the except clause of _phase1_fast_detection (lines 181-184)
Phase1Raised(res) == EnterPhase2(Error(res, "Phase 1 failed"), started, Append(returned, FALSE))

\* _phase1_fast_detection resumes with the answer to client.get(bio_link)
Phase1 ==
    /\ pc = "phase1_get"
    /\ Counted
    /\ Resumed
    /\ UNCHANGED <<bio_link, PLAYWRIGHT_AVAILABLE, browser>>
    /\ IF resp.kind = "exc"
       THEN Phase1Raised(results)
       ELSE IF resp.status = 200 /\ FindOfUrls(LowerText(resp.body)) # {}
       THEN Matched(Found(results, FindOfUrls(LowerText(resp.body))),
                    "Phase 1: Direct HTTP detection")
       ELSE EnterPhase2(results, started, Append(returned, FALSE))

\* detect_onlyfans is called (lines 107-120)
Start ==
    /\ pc = "idle"
    /\ Counted
    /\ clock' = 0 /\ UNCHANGED callers /\ UNCHANGED depth
    /\ results' = Debug(FreshResults, N("Phase 1: Fast HTTP detection"))
    /\ started' = <<"Phase 1">> /\ returned' = <<>> /\ raised' = FALSE
    /\ IdleLocals
    /\ AwaitGet("phase1_get")
    /\ UNCHANGED <<bio_link, PLAYWRIGHT_AVAILABLE, browser>>

NoRequest  == [method |-> "none", path |-> "",
               body |-> [kind |-> "none", has_key |-> FALSE, is_list |-> FALSE, value |-> <<>>]]
NoResponse == [status |-> 0, error |-> "none", usage |-> FALSE, results |-> <<>>]

\* self.results as __init__ leaves it (lines 99-105)
InitialResults == FreshResults

\* The state of one call of detect_onlyfans_in_bio_link(b): its argument,
\* the results of its detector, and where its coroutine stands; a call that
\* was created and has not run yet stands at "idle".
NewCall(id, b) ==
    [id |-> id, bio_link |-> b, pc |-> "idle", resp |-> NoResp,
     results |-> InitialResults, current_url |-> "", redirect_count |-> 0, i |-> 0,
     onlyfans_found |-> NoLocation, indicators |-> "unbound",
     started |-> <<>>, returned |-> <<>>, raised |-> FALSE, faults |-> 0, again |-> 0,
     clock |-> 0]

NoCall == NewCall(0, "none")

\* detect_onlyfans is called directly: no API request, no second call
\* no redirect resolver and no scan of a page text is part of the run
NoHelpers ==
    /\ start_url = "" /\ redirect_limit = 0 /\ current = "" /\ chain = <<>>
    /\ web = <<>> /\ probes = <<>> /\ content = <<>>

NoCaller ==
    /\ NoHelpers
    /\ request = NoRequest /\ response = NoResponse
    /\ bio_links = <<>> /\ batch = <<>> /\ invoked = 0
    /\ stage = "single" /\ parked = NoCall /\ alone = <<>> /\ shared = FALSE
    /\ switches = 0

\* a detector as __init__ leaves it, and the arguments of the call
Init ==
    /\ bio_link \in Targets
    /\ PLAYWRIGHT_AVAILABLE \in BOOLEAN
    /\ pc = "idle" /\ resp = NoResp
    /\ results = FreshResults
    /\ current_url = "" /\ redirect_count = 0 /\ i = 0
    /\ browser = "none" /\ onlyfans_found = NoLocation /\ indicators = "unbound"
    /\ started = <<>> /\ returned = <<>> /\ raised = FALSE /\ faults = 0 /\ again = 0
    /\ clock = 0 /\ depth = 0
    /\ server = [t \in Targets |-> "any"]
    /\ NoCaller

Next ==
    \/ Start
    \/ Phase1
    \/ HandleRedirects
    \/ UserAgents
    \/ LinkExtraction
    \/ Launch
    \/ LaunchFallback
    \/ NewPage
    \/ PageLoaded
    \/ LinkmeClick
    \/ LinkmeText
    \/ BeaconsRecheck
    \/ CloseMatched
    \/ Finally
    \/ BeaconsAlternative
    \/ LinkmeFallbackFirst
    \/ LinkmeFallbackRetry
    \/ FinalFallback
    \/ DesperateMode

Spec == Init /\ [][Next]_vars

\* the event loop resumes the call whenever the awaited operation finished,
\* and every awaited operation finishes (with an answer or an exception)
FairSpec == Spec /\ WF_vars(Next)

\* the call of Init, also on a machine where every request and every
\* browser operation fails
OutageInit ==
    /\ bio_link \in Targets
    /\ PLAYWRIGHT_AVAILABLE \in BOOLEAN
    /\ pc = "idle" /\ resp = NoResp
    /\ results = FreshResults
    /\ current_url = "" /\ redirect_count = 0 /\ i = 0
    /\ browser = "none" /\ onlyfans_found = NoLocation /\ indicators = "unbound"
    /\ started = <<>> /\ returned = <<>> /\ raised = FALSE /\ faults = 0 /\ again = 0
    /\ clock = 0 /\ depth = 0
    /\ server \in {[t \in Targets |-> "any"], [t \in Targets |-> "down"]}
    /\ NoCaller

OutageSpec == OutageInit /\ [][Next]_vars

TypeOK ==
    /\ pc \in {"off", "idle", "phase1_get", "redirects_get", "user_agents_get",
                "link_extraction_get", "launch", "launch_fallback", "new_page", "goto",
                "linkme_click", "linkme_text", "beacons_recheck", "close_matched",
                "close_matched_text", "finally_true", "finally_false", "finally_raise",
                "beacons_alternative_get", "linkme_fallback_get", "final_fallback_get",
                "desperate_get", "done",
                "e_phase1_get", "e_redirects_get", "e_user_agents_get",
                "e_advanced_get", "e_link_extraction_get", "e_paths_get", "e_js_get",
                "e_mobile_get", "e_mobile_extraction_get", "e_sleep",
                "follow_head", "deep_launch", "deep_new_page", "deep_page",
                "deep_close", "deep_finally_true", "deep_finally_false",
                "direct_get"}
    /\ results.has_onlyfans \in BOOLEAN
    /\ browser \in {"none", "open", "closed"}

(***************************************************************************)
(* Properties of detect_onlyfans                                           *)
(***************************************************************************)
PhaseOrder == <<"Phase 1", "Phase 2", "Phase 3", "Phase 3.5", "Phase 4", "Phase 5">>

\* some phase returned True
Succeeded == \E k \in 1..Len(returned) : returned[k]

\* the phases the scheduler runs for this target when none of them matches
ApplicablePhases ==
    <<"Phase 1", "Phase 2">>
    \o (IF PLAYWRIGHT_AVAILABLE THEN <<"Phase 3">> ELSE <<>>)
    \o (IF HasLinkme(bio_link) THEN <<"Phase 3.5">> ELSE <<>>)
    \o <<"Phase 4", "Phase 5">>

\* C1: the phases are started in the order 1, 2, 3, 3.5, 4, 5 (some left
\* out); while a phase runs every phase started before it has returned
\* failure; once a phase has returned success it is the last phase started
\* and the call has returned.
C1_PhasesInOrder ==
    /\ started = SelectSeq(PhaseOrder, LAMBDA p : p \in Range(started))
    /\ Len(returned) <= Len(started) /\ Len(started) <= Len(returned) + 1
    /\ \A k \in 1..Len(returned) : returned[k] => (k = Len(started) /\ pc = "done")
    /\ pc = "done" => Len(returned) = Len(started)

\* two phases failed and the third one started matched
C1_Witness ==
    /\ pc = "done"
    /\ started = <<"Phase 1", "Phase 2", "Phase 4">>
    /\ returned = <<FALSE, FALSE, TRUE>>

\* C2: whatever the servers answer, a call of detect_onlyfans eventually
\* returns its result.
C2_EventuallyReturns == <>(pc = "done")

\* the target answers 403 to the requests sent with the identity of
\* self.client and 200 with a profile URL to _try_different_user_agents
C3_Scenario ==
    /\ pc \in {"phase1_get", "redirects_get"} => resp = Http(403, NoLocation, B_EMPTY)
    /\ pc = "user_agents_get" => resp = Http(200, NoLocation, B_ALICE)

C3_Phase2Succeeds ==
    /\ pc = "done" /\ returned = <<FALSE, TRUE>>
    /\ results.has_onlyfans
    /\ results.detection_method = "Phase 2: Enhanced HTTP strategies"

\* C3: when the target answers 403 to the default identity and 200 with a
\* target-domain URL to an alternate User-Agent, phase 1 fails and phase 2
\* succeeds, with has_onlyfans true and a detection_method that names Phase 2.
C3_AlternateIdentity == []C3_Scenario => <>C3_Phase2Succeeds

\* no exception reached the handler of detect_onlyfans, and when no phase
\* matched every phase that applies to the target was started
C4_Returned ==
    pc = "done" =>
        /\ "Detection failed" \notin Range(results.errors)
        /\ ~Succeeded => started = ApplicablePhases

\* the step records no success of a phase
NoSuccess == \A k \in 1..Len(returned') : returned'[k] => (k <= Len(returned) /\ returned[k])

\* the step that handles an exception records no success
C4_Step == resp.kind = "exc" => NoSuccess

HttpAwaits ==
    {"phase1_get", "redirects_get", "user_agents_get", "link_extraction_get",
     "beacons_alternative_get", "linkme_fallback_get", "final_fallback_get",
     "desperate_get"}

C5_Step ==
    (pc \in HttpAwaits /\ resp.kind = "exc") =>
        /\ Len(results'.errors) > Len(results.errors)
        /\ NoSuccess

\* C5: every exception raised by an HTTP request adds an entry to errors,
\* and the step that handles it records no success of the phase.
C5_TransportFailuresRecorded == [][C5_Step]_vars

\* the note detect_onlyfans appends before it starts a phase (lines 119-152)
PhaseNote(p) ==
    CASE p = "Phase 1"   -> N("Phase 1: Fast HTTP detection")
      [] p = "Phase 2"   -> N("Phase 2: Enhanced HTTP detection")
      [] p = "Phase 3"   -> N("Phase 3: Interactive detection with Playwright")
      [] p = "Phase 3.5" -> N("Phase 3.5: Special link.me fallback detection")
      [] p = "Phase 4"   -> N("Phase 4: Final fallback extraction")
      [] p = "Phase 5"   -> N("Phase 5: Desperate mode extraction")

IsPhaseNote(n) == \E k \in 1..Len(PhaseOrder) : n = PhaseNote(PhaseOrder[k])

\* C6: when detect_onlyfans returns, the phase notes of debug_info are the
\* notes of the phases that were started, in the order they were started.
C6_EveryPhaseNoted ==
    pc = "done" =>
        SelectSeq(results.debug_info, IsPhaseNote)
            = [k \in 1..Len(started) |-> PhaseNote(started[k])]

\* a match was found by the third phase started after an error was recorded
C6_Witness ==
    /\ pc = "done" /\ results.has_onlyfans /\ results.errors # <<>>
    /\ Len(started) >= 3

\* C7: when Playwright is not available and phases 1 and 2 failed, the
\* interactive phase is not started, the skip is noted in debug_info, and
\* the pipeline goes on with the phase after it.
C7_SkipRecorded ==
    (pc = "done" /\ ~PLAYWRIGHT_AVAILABLE /\ Len(returned) > 2) =>
        /\ "Phase 3" \notin Range(started)
        /\ N("Phase 3: Skipped (Playwright not available)") \in Range(results.debug_info)
        /\ started[3] \in {"Phase 3.5", "Phase 4"}

\* C8: a returned result with has_onlyfans true has a non-empty onlyfans_urls.
C8_MatchHasUrls == (pc = "done" /\ results.has_onlyfans) => results.onlyfans_urls # {}

\* phase 4 matched a bare mention and reported the placeholder URL
C8_Witness ==
    /\ pc = "done" /\ results.has_onlyfans
    /\ results.detection_method = "Phase 4: Final fallback extraction"
    /\ results.onlyfans_urls = {DETECTED}

\* C9: no URL with a /files or /public path segment is reported in
\* onlyfans_urls.
C9_NoAssetUrls == pc = "done" => \A u \in results.onlyfans_urls : ~IsAssetUrl(u)

\* the body answered with status 200 embeds the profile URL u in an href and
\* no other target-domain URL
C10_Embeds(r, u) ==
    /\ r.kind = "http" /\ r.status = 200
    /\ FindOfUrls(r.body) = {u} /\ u \in r.body.href /\ ~IsAssetUrl(u)

C10_Step ==
    \A u \in UrlTokens :
        (pc = "phase1_get" /\ C10_Embeds(resp, u)) =>
            /\ pc' = "done" /\ started' = <<"Phase 1">>
            /\ results'.has_onlyfans /\ results'.onlyfans_urls = {u}
            /\ results'.detection_method = "Phase 1: Direct HTTP detection"

\* C10: when the page is served with status 200 and embeds exactly one
\* profile URL u in an href, the call returns from phase 1 with has_onlyfans
\* true, onlyfans_urls = {u} and the detection_method of phase 1.
C10_DirectEmbed == [][C10_Step]_vars

(***************************************************************************)
(* Properties of the time a call takes                                     *)
(***************************************************************************)
C11_Step == clock = Ceiling => (started' = started /\ ~results'.has_onlyfans)

\* C11: once a call has taken Ceiling awaited operations, no further phase is
\* started and no match is reported: the call ends unmatched.
C11_CeilingStops == [][C11_Step]_vars

(***************************************************************************)
(* src/api_server.py: the endpoints /detect and /batch                     *)
(***************************************************************************)
\* A JSON value sent for a bio link: a string, a number, or an object with
\* (of the five keys the server looks at) the keys "url" and "bio_link",
\* where "" stands for a key that is absent.
Str(s)       == [kind |-> "str", url |-> s, bio_link |-> ""]
Dict(u, b)   == [kind |-> "dict", url |-> u, bio_link |-> b]
Num          == [kind |-> "num", url |-> JSON_NUM, bio_link |-> ""]
BLANK        == " "

\* isinstance(v, str) and v.strip()
Usable(v) == IsStr(v) /\ v \notin {EMPTY_STR, BLANK}

\* lines 44-48 and 141-150: an object is replaced by the first usable value
\* of its keys, and is kept when it has none
Normalize(item) ==
    IF item.kind = "dict"
    THEN IF Usable(item.url) THEN item.url
         ELSE IF Usable(item.bio_link) THEN item.bio_link
         ELSE JSON_DICT
    ELSE item.url

\* the body of a request: unparsable, the JSON null, a JSON array, a JSON
\* object with or without the key the endpoint reads (whose value is a list
\* or a single value), or the query string of a GET
Payload(k, has, list, v) == [kind |-> k, has_key |-> has, is_list |-> list, value |-> v]
Req(m, p, b) == [method |-> m, path |-> p, body |-> b]

max_allowed == 100

Items == {Str(T_OTHER), Str(T_LINKME), Dict(BLANK, T_OTHER), Dict(EMPTY_STR, EMPTY_STR)}

\* the arrays sent to /batch: every array of up to SmallBatch items, and
\* arrays of max_allowed - 1, max_allowed and max_allowed + 1 equal items
SmallBatch == 3

Arrays ==
    UNION {[1..n -> Items] : n \in 0..SmallBatch}
    \cup {[k \in 1..n |-> Str(T_XLI)] : n \in {max_allowed - 1, max_allowed, max_allowed + 1}}

BatchRequests ==
    {Req("POST", "/batch", Payload("array", FALSE, TRUE, a)) : a \in Arrays}
    \cup {Req("POST", "/batch", Payload("object", TRUE, TRUE, a)) : a \in Arrays}
    \cup {Req("POST", "/batch", Payload("object", TRUE, FALSE, <<Str(T_OTHER)>>)),
          Req("POST", "/batch", Payload("object", FALSE, FALSE, <<>>)),
          Req("POST", "/batch", Payload("null", FALSE, FALSE, <<>>)),
          Req("POST", "/batch", Payload("unparsable", FALSE, FALSE, <<>>))}

PostedValues == Items \cup {Str(EMPTY_STR), Num, Dict(T_LINKME, T_OTHER)}

DetectRequests ==
    {Req("POST", "/detect", Payload("object", TRUE, FALSE, <<v>>)) : v \in PostedValues}
    \cup {Req("POST", "/detect", Payload("object", FALSE, FALSE, <<>>)),
          Req("POST", "/detect", Payload("null", FALSE, FALSE, <<>>)),
          Req("POST", "/detect", Payload("unparsable", FALSE, FALSE, <<>>))}
    \cup {Req("GET", "/detect", Payload("query", TRUE, FALSE, <<Str(u)>>))
            : u \in {T_OTHER, T_LINKME, EMPTY_STR}}
    \cup {Req("GET", "/detect", Payload("query", FALSE, FALSE, <<>>))}

\* a response: the status, the "error" text of an error body, whether the
\* body has a "usage" entry, and the results sent
Reply(st, err, usage, res) == [status |-> st, error |-> err, usage |-> usage, results |-> res]

\* the result with its "request" entry (lines 56-58, 90-93, 163)
Processed(res, b) == [error |-> "none", bio_link |-> b, result |-> res]

\* the entry of a target whose detection raised (lines 178-186)
Failed(b) ==
    [error |-> "Failed to process", bio_link |-> b,
     result |-> Error(FreshResults, "exception")]

\* asyncio.run(detect_onlyfans_in_bio_link(b)): a new detector, and the
\* coroutine of its detect_onlyfans is scheduled
CallDetect(b) ==
    /\ bio_link' = b /\ pc' = "idle" /\ results' = FreshResults
    /\ invoked' = invoked + 1
    /\ resp' = NoResp /\ IdleLocals /\ again' = 0 /\ clock' = 0 /\ faults' = 0
    /\ started' = <<>> /\ returned' = <<>> /\ raised' = FALSE

\* no detection call is made
NoCallMade ==
    UNCHANGED <<bio_link, pc, results, invoked, resp, current_url, redirect_count, i,
                onlyfans_found, indicators, again, clock, faults, started, returned, raised>>

ApiUnchanged == UNCHANGED <<PLAYWRIGHT_AVAILABLE, browser, server, depth, request,
                            stage, parked, alone, shared, switches, helpers>>

\* variant: the limit is taken one too low
TooManyOffByOne(n) == n >= max_allowed

\* line 132: len(bio_links) > 100
TooMany(n) == n > max_allowed

\* batch_detect up to the first asyncio.run (lines 108-162)
BatchDetect ==
    /\ request.path = "/batch" /\ response = NoResponse /\ pc = "off" /\ invoked = 0
    /\ ApiUnchanged
    /\ batch' = <<>>
    /\ LET data == request.body
       IN  IF data.kind = "unparsable"
           THEN /\ response' = Reply(500, "Batch detection failed", FALSE, <<>>)
                /\ bio_links' = <<>> /\ NoCallMade
           ELSE IF ~(data.kind = "array" \/ (data.kind = "object" /\ data.has_key))
           THEN /\ response' = Reply(400, "Invalid format", TRUE, <<>>)
                /\ bio_links' = <<>> /\ NoCallMade
           ELSE IF ~data.is_list
           THEN /\ response' = Reply(400, "bio_links must be an array", FALSE, <<>>)
                /\ bio_links' = <<>> /\ NoCallMade
           ELSE IF TooMany(Len(data.value))
           THEN /\ response' = Reply(400, "Maximum 100 bio links per batch", FALSE, <<>>)
                /\ bio_links' = <<>> /\ NoCallMade
           ELSE /\ bio_links' = [k \in 1..Len(data.value) |-> Normalize(data.value[k])]
                /\ IF Len(data.value) = 0
                   THEN response' = Reply(200, "none", FALSE, <<>>) /\ NoCallMade
                   ELSE response' = response /\ CallDetect(Normalize(data.value[1]))

\* variant: a result with errors ends the loop
BatchCollectAborts ==
    /\ request.path = "/batch" /\ response = NoResponse /\ pc \in {"done", "raised"}
    /\ ApiUnchanged
    /\ UNCHANGED bio_links
    /\ LET all == Append(batch, Processed(results, bio_link))
       IN  /\ batch' = all
           /\ IF Len(all) < Len(bio_links) /\ results.errors = <<>>
              THEN response' = response /\ CallDetect(bio_links[Len(all) + 1])
              ELSE /\ response' = Reply(200, "none", FALSE, all)
                   /\ pc' = "off"
                   /\ UNCHANGED <<bio_link, results, invoked, resp, current_url,
                                  redirect_count, i, onlyfans_found, indicators, again,
                                  clock, faults, started, returned, raised>>

\* variant: the errors of the entries before leak into the next entry
BatchCollectLeaks ==
    /\ request.path = "/batch" /\ response = NoResponse /\ pc \in {"done", "raised"}
    /\ ApiUnchanged
    /\ UNCHANGED bio_links
    /\ LET before == IF batch = <<>> THEN <<>> ELSE batch[Len(batch)].result.errors
           all    == Append(batch, Processed([results EXCEPT !.errors = before \o @], bio_link))
       IN  /\ batch' = all
           /\ IF Len(all) < Len(bio_links)
              THEN response' = response /\ CallDetect(bio_links[Len(all) + 1])
              ELSE /\ response' = Reply(200, "none", FALSE, all)
                   /\ pc' = "off"
                   /\ UNCHANGED <<bio_link, results, invoked, resp, current_url,
                                  redirect_count, i, onlyfans_found, indicators, again,
                                  clock, faults, started, returned, raised>>

\* the loop of batch_detect after asyncio.run (lines 162-188): the call
\* returned its result, or an exception left it
BatchCollect ==
    /\ request.path = "/batch" /\ response = NoResponse /\ pc \in {"done", "raised"}
    /\ ApiUnchanged
    /\ UNCHANGED bio_links
    /\ LET entry == IF pc = "done" THEN Processed(results, bio_link) ELSE Failed(bio_link)
           all   == Append(batch, entry)
       IN  /\ batch' = all
           /\ IF Len(all) < Len(bio_links)
              THEN response' = response /\ CallDetect(bio_links[Len(all) + 1])
              ELSE /\ response' = Reply(200, "none", FALSE, all)
                   /\ pc' = "off"
                   /\ UNCHANGED <<bio_link, results, invoked, resp, current_url,
                                  redirect_count, i, onlyfans_found, indicators, again,
                                  clock, faults, started, returned, raised>>

\* detect_onlyfans of the server, POST /detect, up to asyncio.run (lines 32-53)
DetectPost ==
    /\ request.path = "/detect" /\ request.method = "POST"
    /\ response = NoResponse /\ pc = "off" /\ invoked = 0
    /\ ApiUnchanged
    /\ UNCHANGED <<bio_links, batch>>
    /\ LET data == request.body
       IN  IF data.kind = "unparsable"
           THEN response' = Reply(500, "Detection failed", FALSE, <<>>) /\ NoCallMade
           ELSE IF data.kind = "null" \/ ~data.has_key
           THEN response' = Reply(400, "Missing bio_link parameter", TRUE, <<>>) /\ NoCallMade
           ELSE response' = response /\ CallDetect(Normalize(data.value[1]))

\* detect_get, GET /detect, up to asyncio.run (lines 75-87)
DetectGet ==
    /\ request.path = "/detect" /\ request.method = "GET"
    /\ response = NoResponse /\ pc = "off" /\ invoked = 0
    /\ ApiUnchanged
    /\ UNCHANGED <<bio_links, batch>>
    /\ LET args == request.body
       IN  IF ~args.has_key \/ args.value[1].url = EMPTY_STR
           THEN response' = Reply(400, "Missing bio_link parameter", TRUE, <<>>) /\ NoCallMade
           ELSE response' = response /\ CallDetect(args.value[1].url)

\* both /detect handlers after asyncio.run (lines 55-70, 89-103)
DetectRespond ==
    /\ request.path = "/detect" /\ response = NoResponse /\ pc \in {"done", "raised"}
    /\ ApiUnchanged
    /\ UNCHANGED <<bio_links, batch>>
    /\ response' = IF pc = "done"
                   THEN Reply(200, "none", FALSE, <<Processed(results, bio_link)>>)
                   ELSE Reply(500, "Detection failed", FALSE, <<>>)
    /\ pc' = "off"
    /\ UNCHANGED <<bio_link, results, invoked, resp, current_url, redirect_count, i,
                   onlyfans_found, indicators, again, clock, faults, started, returned,
                   raised>>

\* the sites of the targets sent to the server
ApiWorlds ==
    {[t \in Targets |-> IF t = T_OTHER THEN a ELSE IF t = T_LINKME THEN b ELSE "profile"]
        : a \in Scripts, b \in Scripts}

\* the server has received a request; Playwright is not installed
ApiInit ==
    /\ request \in BatchRequests \cup DetectRequests
    /\ response = NoResponse
    /\ server \in ApiWorlds
    /\ PLAYWRIGHT_AVAILABLE = FALSE
    /\ bio_link = "none" /\ pc = "off" /\ resp = NoResp
    /\ results = FreshResults
    /\ current_url = "" /\ redirect_count = 0 /\ i = 0
    /\ browser = "none" /\ onlyfans_found = NoLocation /\ indicators = "unbound"
    /\ started = <<>> /\ returned = <<>> /\ raised = FALSE /\ faults = 0 /\ again = 0
    /\ clock = 0 /\ depth = 0
    /\ bio_links = <<>> /\ batch = <<>> /\ invoked = 0
    /\ stage = "single" /\ parked = NoCall /\ alone = <<>> /\ shared = FALSE
    /\ switches = 0
    /\ NoHelpers

ApiNext ==
    \/ BatchDetect
    \/ BatchCollect
    \/ DetectPost
    \/ DetectGet
    \/ DetectRespond
    \/ Start
    \/ Phase1
    \/ HandleRedirects
    \/ UserAgents
    \/ LinkExtraction
    \/ LinkmeFallbackFirst
    \/ LinkmeFallbackRetry
    \/ FinalFallback
    \/ DesperateMode

ApiSpec == ApiInit /\ [][ApiNext]_vars

(***************************************************************************)
(* Properties of the API server                                            *)
(***************************************************************************)
\* the server has answered a batch request with the list of results
BatchAnswered == request.path = "/batch" /\ response.status = 200

\* C12: the list a batch request is answered with has one entry per entry of
\* the array sent, the k-th one for the k-th bio link (after normalization),
\* and one detection call was made per entry, whatever the calls before it
\* recorded as errors.
C12_OnePerInput ==
    BatchAnswered =>
        LET input == request.body.value
        IN  /\ Len(input) <= max_allowed
            /\ Len(response.results) = Len(input)
            /\ invoked = Len(input)
            /\ \A k \in 1..Len(input) :
                  response.results[k].bio_link = Normalize(input[k])

\* three targets; the detection of the second raised in detect_onlyfans and
\* the third was processed without any error
C12_Witness ==
    /\ BatchAnswered /\ Len(response.results) = 3
    /\ "Detection failed" \in Range(response.results[2].result.errors)
    /\ response.results[3].result.errors = <<>>
    /\ response.results[3].result.debug_info # <<>>

\* C13: in the answer to a batch, the entry of a target whose every request
\* fails with a transport error has has_onlyfans false and a non-empty errors
\* list, and the entry of a target is the same wherever it stands in the
\* batch: what was processed before it, a failing target included, leaves
\* no trace in it.
C13_FailuresStayLocal ==
    BatchAnswered =>
        LET out == response.results
        IN  /\ \A k \in 1..Len(out) :
                  ScriptOf(out[k].bio_link) = "down" =>
                      /\ ~out[k].result.has_onlyfans
                      /\ out[k].result.errors # <<>>
            /\ \A j, k \in 1..Len(out) :
                  out[j].bio_link = out[k].bio_link => out[j] = out[k]

\* the same target before and after a target that is down, with a match
C13_Witness ==
    /\ BatchAnswered /\ Len(response.results) = 3
    /\ ScriptOf(response.results[2].bio_link) = "down"
    /\ response.results[2].bio_link # response.results[1].bio_link
    /\ response.results[1].bio_link = response.results[3].bio_link
    /\ response.results[3].result.has_onlyfans

\* the array of bio links of a batch request in one of the two formats
SentArray == request.path = "/batch" /\ request.body.is_list

\* C14: a batch of more than max_allowed entries is answered with status 400
\* and no detection call is made for it; a batch of exactly max_allowed
\* entries is not rejected, and when it is answered a detection call was
\* made for each of its entries.
C14_CapAtHundred ==
    SentArray =>
        LET n == Len(request.body.value)
        IN  /\ n > max_allowed =>
                  /\ invoked = 0 /\ pc = "off"
                  /\ response.status \in {0, 400}
            /\ n = max_allowed =>
                  /\ response.status \in {0, 200}
                  /\ response.status = 200 =>
                        invoked = max_allowed /\ Len(response.results) = max_allowed

\* a batch of max_allowed + 1 entries was rejected
C14_Witness ==
    /\ SentArray /\ Len(request.body.value) = max_allowed + 1
    /\ response.status = 400 /\ invoked = 0

\* the request to /detect names no target URL: the body cannot be parsed or
\* is null, the field is absent, or its value is the empty string or no
\* string (and no object with a usable URL)
Malformed ==
    /\ request.path = "/detect"
    /\ \/ request.body.kind \in {"unparsable", "null"}
       \/ ~request.body.has_key
       \/ Normalize(request.body.value[1]) = EMPTY_STR
       \/ ~IsStr(Normalize(request.body.value[1]))

\* C15: a request to /detect that names no target URL is answered with a
\* 4xx status and a usage hint, and no detection call is made for it.
C15_MalformedRejected ==
    Malformed =>
        /\ invoked = 0
        /\ response # NoResponse => (response.status \in 400..499 /\ response.usage)

(***************************************************************************)
(* Two calls of detect_onlyfans_in_bio_link on one event loop.  Call 1 and *)
(* then call 2 run alone; then both are made again and run concurrently:   *)
(* the event loop resumes either of them whenever it stands at an await.   *)
(***************************************************************************)
MaxSwitches == 2

\* the call that is running, as it is kept while the other one runs.  When
\* both calls use one detector, self.results stays where it is, and a call
\* that has returned keeps what it returned.
Current(id) ==
    [id |-> id, bio_link |-> bio_link, pc |-> pc, resp |-> resp,
     results |-> IF shared /\ pc # "done" THEN InitialResults ELSE results,
     current_url |-> current_url, redirect_count |-> redirect_count, i |-> i,
     onlyfans_found |-> onlyfans_found, indicators |-> indicators,
     started |-> started, returned |-> returned, raised |-> raised, faults |-> faults,
     again |-> again, clock |-> clock]

\* variant: the calls share one module-level detector object
ResumeSameDetector(c) ==
    /\ bio_link' = c.bio_link /\ pc' = c.pc /\ resp' = c.resp
    /\ results' = results
    /\ Locals(c.current_url, c.redirect_count, c.i, c.onlyfans_found, c.indicators)
    /\ started' = c.started /\ returned' = c.returned /\ raised' = c.raised
    /\ faults' = c.faults /\ again' = c.again /\ clock' = c.clock

\* the event loop resumes call c; detect_onlyfans_in_bio_link gave it a
\* detector of its own (lines 1143-1144)
Resume(c) ==
    /\ bio_link' = c.bio_link /\ pc' = c.pc /\ resp' = c.resp
    /\ results' = IF shared THEN results ELSE c.results
    /\ Locals(c.current_url, c.redirect_count, c.i, c.onlyfans_found, c.indicators)
    /\ started' = c.started /\ returned' = c.returned /\ raised' = c.raised
    /\ faults' = c.faults /\ again' = c.again /\ clock' = c.clock

PairUnchanged == UNCHANGED <<PLAYWRIGHT_AVAILABLE, browser, server, depth, request,
                             response, bio_links, batch, invoked, shared, helpers>>

\* the call that ran alone has returned: its result is kept, and the caller
\* goes on with the other call; after both, it makes the two calls again
Finish ==
    /\ stage \in {"first", "second"} /\ pc = "done"
    /\ PairUnchanged
    /\ alone' = Append(alone, [bio_link |-> bio_link, result |-> results])
    /\ stage' = IF stage = "first" THEN "second" ELSE "both"
    /\ Resume(parked)
    /\ parked' = NewCall(3 - parked.id, bio_link)
    /\ switches' = 0

\* the running call stands at an await (or has returned) and the event loop
\* resumes the other call
Switch ==
    /\ stage = "both" /\ parked.pc # "done"
    /\ pc = "done" \/ ~shared \/ switches < MaxSwitches
    /\ PairUnchanged
    /\ UNCHANGED <<alone, stage>>
    /\ Resume(parked)
    /\ parked' = Current(3 - parked.id)
    /\ switches' = IF pc # "done" /\ switches < MaxSwitches THEN switches + 1
                   ELSE switches

\* the sites of the two targets
PairWorlds ==
    {[t \in Targets |-> IF t = T_OTHER THEN a ELSE IF t = T_LINKME THEN b ELSE "plain"]
        : a \in Scripts, b \in Scripts}

PairTargets == {T_OTHER, T_LINKME}

TwoCalls(same) ==
    /\ stage = "first" /\ shared = same
    /\ bio_link \in PairTargets
    /\ \E b \in PairTargets : parked = NewCall(2, b)
    /\ server \in PairWorlds
    /\ PLAYWRIGHT_AVAILABLE = FALSE
    /\ pc = "idle" /\ resp = NoResp
    /\ results = InitialResults
    /\ current_url = "" /\ redirect_count = 0 /\ i = 0
    /\ browser = "none" /\ onlyfans_found = NoLocation /\ indicators = "unbound"
    /\ started = <<>> /\ returned = <<>> /\ raised = FALSE /\ faults = 0 /\ again = 0
    /\ clock = 0 /\ depth = 0
    /\ request = NoRequest /\ response = NoResponse
    /\ bio_links = <<>> /\ batch = <<>> /\ invoked = 0
    /\ alone = <<>> /\ switches = 0
    /\ NoHelpers

PairNext ==
    \/ Finish
    \/ Switch
    \/ Start
    \/ Phase1
    \/ HandleRedirects
    \/ UserAgents
    \/ LinkExtraction
    \/ LinkmeFallbackFirst
    \/ LinkmeFallbackRetry
    \/ FinalFallback
    \/ DesperateMode

\* every call has a detector of its own
PairInit == TwoCalls(FALSE)

PairSpec == PairInit /\ [][PairNext]_vars

\* all calls are made on one HybridFinalDetector
SharedInit == TwoCalls(TRUE)

SharedSpec == SharedInit /\ [][PairNext]_vars

(***************************************************************************)
(* Properties of calls that follow each other or run concurrently          *)
(***************************************************************************)
\* the calls of the concurrent round that have returned, and what each of
\* them returned
Concurrent ==
    IF stage # "both" THEN {}
    ELSE (IF pc = "done"
          THEN {[id |-> 3 - parked.id, bio_link |-> bio_link, result |-> results]} ELSE {})
         \cup (IF parked.pc = "done"
               THEN {[id |-> parked.id, bio_link |-> parked.bio_link,
                      result |-> parked.results]} ELSE {})

\* every call that has returned so far: its target and its result
Calls ==
    {alone[k] : k \in 1..Len(alone)}
    \cup {[bio_link |-> c.bio_link, result |-> c.result] : c \in Concurrent}

\* C16: any two calls of detect_onlyfans_in_bio_link on the same target,
\* whose site answers the same request the same way every time, return the
\* same has_onlyfans and the same set of onlyfans_urls.
C16_SameTargetSameAnswer ==
    \A c, d \in Calls :
        c.bio_link = d.bio_link =>
            /\ c.result.has_onlyfans = d.result.has_onlyfans
            /\ c.result.onlyfans_urls = d.result.onlyfans_urls

\* four calls on one target have returned, each with a match
C16_Witness ==
    /\ stage = "both" /\ pc = "done" /\ parked.pc = "done"
    /\ bio_link = parked.bio_link
    /\ \A c \in Calls : c.result.has_onlyfans /\ c.result.onlyfans_urls # {}

\* C17: each of two calls that run concurrently on detectors of their own,
\* interleaved at their awaits in any order, returns exactly the result the
\* same call returned when it ran alone.
C17_ConcurrentAsAlone ==
    \A c \in Concurrent : c.result = alone[c.id].result

\* the two calls went on in turns, one recorded errors and the other a match
C17_Witness ==
    /\ Cardinality(Concurrent) = 2 /\ switches = MaxSwitches
    /\ \E c, d \in Concurrent :
          /\ c.result.errors # <<>> /\ ~c.result.has_onlyfans
          /\ d.result.errors = <<>> /\ d.result.has_onlyfans

\* C18: each of two calls that run concurrently on the same detector object
\* returns its own match flag, evidence, diagnostics and errors: those the
\* same call returned when it ran alone.
C18_SharedDetectorIsolated ==
    \A c \in Concurrent :
        /\ c.result.has_onlyfans = alone[c.id].result.has_onlyfans
        /\ c.result.onlyfans_urls = alone[c.id].result.onlyfans_urls
        /\ c.result.debug_info = alone[c.id].result.debug_info
        /\ c.result.errors = alone[c.id].result.errors

(***************************************************************************)
(* EnhancedOnlyFansDetector (src/onlyfans_detector_enhanced.py): three     *)
(* phases of HTTP strategies.  The last strategy of phase 3 calls          *)
(* detect_onlyfans again for xli.ink targets; depth counts the calls that  *)
(* are waiting for such an inner call (MaxDepth stands for any number from *)
(* MaxDepth on: nothing in the code reads the nesting).                    *)
(***************************************************************************)
MaxDepth == 2

user_agents      == 12
advanced_headers == 2
common_paths     == 14

DeepMethod == "Phase 3: Deep HTTP investigation"

\* detect_onlyfans returns self.results (line 66).  When the call was made
\* by _handle_dynamic_content (line 582), the dict it returns is true for
\* each caller on the stack: _phase3_deep_investigation returns it (line
\* 128) and detect_onlyfans sets detection_method and returns (lines 56-58).
EReturn(res, st, rt) ==
    /\ results' = IF depth > 0 THEN [res EXCEPT !.detection_method = DeepMethod] ELSE res
    /\ started' = IF depth > 0 THEN <<"Phase 1", "Phase 2", "Phase 3">> ELSE st
    /\ returned' = IF depth > 0 THEN <<FALSE, FALSE, TRUE>> ELSE rt
    /\ depth' = 0
    /\ pc' = "done" /\ resp' = NoResp /\ IdleLocals /\ again' = 0
    /\ Raising(FALSE)

\* a phase returned True (lines 45-58)
EMatched(res, method) ==
    EReturn([res EXCEPT !.detection_method = method], started, Append(returned, TRUE))

\* lines 33-46: self.results is replaced, and phase 1 sends its request
EEnter(d) ==
    /\ results' = Debug(FreshResults, N("Phase 1: Fast direct detection"))
    /\ started' = <<"Phase 1">> /\ returned' = <<>> /\ raised' = FALSE
    /\ depth' = d
    /\ IdleLocals
    /\ AwaitGet("e_phase1_get")

\* the part of an action of the enhanced pipeline that is the same for all
EResumed == Counted /\ Tick /\ UNCHANGED callers
            /\ UNCHANGED <<bio_link, PLAYWRIGHT_AVAILABLE, browser>>

\* a strategy goes on to the request of the next one
EGoOn(res, p) ==
    /\ results' = res
    /\ Locals("", 0, 0, NoLocation, "unbound")
    /\ AwaitGet(p)
    /\ Raising(FALSE)
    /\ UNCHANGED <<started, returned, depth>>

\* the next pass of a loop over identities or paths
EAgain(p) ==
    /\ NextPass
    /\ AwaitGet(p)
    /\ Raising(FALSE)
    /\ UNCHANGED <<results, started, returned, depth>>

\* the response is a page in which the pattern of phase 1 finds URLs
EHit(r) == r.kind = "http" /\ r.status = 200 /\ FindOfUrls(LowerText(r.body)) # {}

\* _handle_dynamic_content after asyncio.sleep(5) (lines 568-588).  For an
\* xli.ink target the note of line 577 is appended to the dict that the inner
\* call replaces at once (line 582, then lines 33-39).
EDynamic ==
    /\ pc = "e_sleep"
    /\ EResumed
    /\ IF HasXli(bio_link)
       THEN EEnter(IF depth < MaxDepth THEN depth + 1 ELSE depth)
       ELSE /\ EReturn(AppendAll(results,
                          <<N("Not an xli.ink link, skipping dynamic content handling."),
                            N("All phases completed - no OnlyFans found")>>),
                       started, Append(returned, FALSE))

\* strategy 5 starts: lines 131, 564-567
EnterDynamic(res) ==
    /\ results' = Debug(res, N("Attempting to handle dynamic content for xli.ink"))
    /\ Locals("", 0, 0, NoLocation, "unbound")
    /\ Await("e_sleep", {Ok})
    /\ Raising(FALSE)
    /\ UNCHANGED <<started, returned, depth>>

\* _enhanced_link_extraction_mobile resumes (lines 515-555): the patterns
\* ask for data-mobile-url, mobile-url, data-ios-url or data-android-url
\* attributes, which the page texts here do not have
EMobileExtraction ==
    /\ pc = "e_mobile_extraction_get"
    /\ EResumed
    /\ IF resp.kind = "exc"
       THEN EnterDynamic(Error(results, "Mobile link extraction failed"))
       ELSE EnterDynamic(results)

\* _try_mobile_content resumes (lines 498-511)
EMobile ==
    /\ pc = "e_mobile_get"
    /\ EResumed
    /\ IF resp.kind = "exc"
       THEN EGoOn(Error(results, "Mobile content test failed"), "e_mobile_extraction_get")
       ELSE IF EHit(resp)
       THEN EMatched(Debug(Found(results, FindOfUrls(LowerText(resp.body))),
                           N("Found OnlyFans in mobile content")), DeepMethod)
       ELSE EGoOn(results, "e_mobile_extraction_get")

\* _extract_js_variables resumes (lines 447-484): the patterns ask for a
\* var, const, let, window. or document. assignment, which the page texts
\* here do not have
EJsVariables ==
    /\ pc = "e_js_get"
    /\ EResumed
    /\ IF resp.kind = "exc"
       THEN EGoOn(Error(results, "JavaScript variable extraction failed"), "e_mobile_get")
       ELSE EGoOn(results, "e_mobile_get")

\* _try_alternative_paths resumes with the answer for common_paths[i]
\* (lines 424-440), a page of the site of bio_link; an exception of the
\* request is dropped
EPaths ==
    /\ pc = "e_paths_get"
    /\ EResumed
    /\ IF EHit(resp)
       THEN EMatched(Debug(Found(results, FindOfUrls(LowerText(resp.body))),
                           Note("Found OnlyFans in alternative path", i, "")), DeepMethod)
       ELSE IF i + 1 < common_paths
       THEN EAgain("e_paths_get")
       ELSE EGoOn(results, "e_js_get")

\* phase 2 returned False: lines 54-55, 111-112 and 424-427
EnterPhase3Deep(res) ==
    /\ results' = Debug(res, N("Phase 3: Deep investigation for stubborn links"))
    /\ started' = Append(started, "Phase 3") /\ returned' = Append(returned, FALSE)
    /\ raised' = FALSE
    /\ Locals("", 0, 0, NoLocation, "unbound")
    /\ AwaitGet("e_paths_get")
    /\ UNCHANGED depth

\* lines 293-408 of _enhanced_link_extraction: a URL in a quoted attribute
\* value is found by the second JavaScript pattern, a URL in element text by
\* the text patterns; the content is not lowered
EExtracted(b) ==
    LET quoted  == {u \in b.href \cup b.data : MatchesOfRegex(u)}
        in_text == {u \in b.text : MatchesOfRegex(u)}
    IN  IF quoted # {} THEN [note |-> "Found OnlyFans in JavaScript with pattern", urls |-> quoted]
        ELSE [note |-> "Found OnlyFans in text content", urls |-> in_text]

\* _enhanced_link_extraction resumes (lines 287-412)
ELinkExtraction ==
    /\ pc = "e_link_extraction_get"
    /\ EResumed
    /\ IF resp.kind = "exc"
       THEN EnterPhase3Deep(Error(results, "Enhanced link extraction failed"))
       ELSE IF resp.status = 200 /\ EExtracted(resp.body).urls # {}
       THEN EMatched(Debug(Found(results, EExtracted(resp.body).urls),
                           N(EExtracted(resp.body).note)),
                     "Phase 2: Enhanced HTTP strategies")
       ELSE EnterPhase3Deep(results)

\* the loop over advanced_headers resumes (lines 265-279)
EAdvanced ==
    /\ pc = "e_advanced_get"
    /\ EResumed
    /\ IF EHit(resp)
       THEN EMatched(Debug(Found(results, FindOfUrls(LowerText(resp.body))),
                           N("Found OnlyFans with advanced headers")),
                     "Phase 2: Enhanced HTTP strategies")
       ELSE IF i + 1 < advanced_headers
       THEN EAgain("e_advanced_get")
       ELSE EGoOn(results, "e_link_extraction_get")

\* the loop over user_agents resumes (lines 207-232)
EUserAgents ==
    /\ pc = "e_user_agents_get"
    /\ EResumed
    /\ IF EHit(resp)
       THEN EMatched(Debug(Found(results, FindOfUrls(LowerText(resp.body))),
                           Note("Found OnlyFans with User-Agent", i, "")),
                     "Phase 2: Enhanced HTTP strategies")
       ELSE IF i + 1 < user_agents
       THEN EAgain("e_user_agents_get")
       ELSE EGoOn(results, "e_advanced_get")

\* lines 150-156: the URL of the next hop
ENextHop(url, location) ==
    IF StartsWith(location, "/") THEN urljoin(url, location)
    ELSE IF StartsWith(location, "http") THEN location
    ELSE urljoin(url, location)

\* _handle_redirects_better resumes with the answer for current_url (lines
\* 145-183); every answer that is no redirect with a Location ends the loop
ERedirects ==
    /\ pc = "e_redirects_get"
    /\ EResumed
    /\ IF resp.kind = "exc"
       THEN EGoOn(Error(results, "Redirect handling failed"), "e_user_agents_get")
       ELSE IF IsRedirect(resp) /\ resp.location # NoLocation
       THEN LET url  == ENextHop(current_url, resp.location)
                res1 == Debug(results, Note("Redirect", redirect_count + 1, url))
            IN  IF redirect_count + 1 < max_redirects
                THEN /\ results' = res1
                     /\ Locals(url, redirect_count + 1, i, onlyfans_found, indicators)
                     /\ Await("e_redirects_get", ResponsesAt(url))
                     /\ Raising(FALSE)
                     /\ UNCHANGED <<started, returned, depth>>
                ELSE EGoOn(res1, "e_user_agents_get")
       ELSE IF EHit(resp)
       THEN EMatched(Debug(Found(results, FindOfUrls(LowerText(resp.body))),
                           Note("Found OnlyFans after redirects", redirect_count, "")),
                     "Phase 2: Enhanced HTTP strategies")
       ELSE EGoOn(results, "e_user_agents_get")

\* phase 1 returned False: lines 49-50, 91-92 and 139-147
EnterPhase2Enhanced(res) ==
    /\ results' = Debug(res, N("Phase 2: Enhanced detection for failing links"))
    /\ started' = Append(started, "Phase 2") /\ returned' = Append(returned, FALSE)
    /\ raised' = FALSE
    /\ Locals(bio_link, 0, 0, NoLocation, "unbound")
    /\ Await("e_redirects_get", ResponsesAt(bio_link))
    /\ UNCHANGED depth

\* _phase1_fast_detection resumes (lines 68-85)
EPhase1 ==
    /\ pc = "e_phase1_get"
    /\ EResumed
    /\ IF resp.kind = "exc"
       THEN EnterPhase2Enhanced(Error(results, "Phase 1 failed"))
       ELSE IF EHit(resp)
       THEN EMatched(Found(results, FindOfUrls(LowerText(resp.body))),
                     "Phase 1: Direct HTTP detection")
       ELSE EnterPhase2Enhanced(results)

\* detect_onlyfans of EnhancedOnlyFansDetector is called (lines 31-46)
EStart ==
    /\ pc = "idle"
    /\ Counted /\ clock' = 0 /\ UNCHANGED callers
    /\ UNCHANGED <<bio_link, PLAYWRIGHT_AVAILABLE, browser>>
    /\ EEnter(0)

\* a detector as __init__ leaves it (lines 22-29), and the argument
EnhancedInit ==
    /\ bio_link \in Targets
    /\ PLAYWRIGHT_AVAILABLE = FALSE
    /\ pc = "idle" /\ resp = NoResp
    /\ results = FreshResults
    /\ current_url = "" /\ redirect_count = 0 /\ i = 0
    /\ browser = "none" /\ onlyfans_found = NoLocation /\ indicators = "unbound"
    /\ started = <<>> /\ returned = <<>> /\ raised = FALSE /\ faults = 0 /\ again = 0
    /\ clock = 0 /\ depth = 0
    /\ server = [t \in Targets |-> "any"]
    /\ NoCaller

EnhancedNext ==
    \/ EStart
    \/ EPhase1
    \/ ERedirects
    \/ EUserAgents
    \/ EAdvanced
    \/ ELinkExtraction
    \/ EPaths
    \/ EJsVariables
    \/ EMobile
    \/ EMobileExtraction
    \/ EDynamic

EnhancedSpec == EnhancedInit /\ [][EnhancedNext]_vars

\* the event loop resumes the call whenever the awaited operation finished
EnhancedFairSpec == EnhancedSpec /\ WF_vars(EnhancedNext)

(***************************************************************************)
(* Properties of EnhancedOnlyFansDetector                                  *)
(***************************************************************************)
IsPrefix(s, t) == Len(s) <= Len(t) /\ SubSeq(t, 1, Len(s)) = s

\* C19: during one top-level call of detect_onlyfans the diagnostics only
\* grow: no step of the running call removes or moves an entry of
\* debug_info, so every entry is at its position in the returned result.
C19_Step == pc # "idle" => IsPrefix(results.debug_info, results'.debug_info)

C19_DiagnosticsOnlyGrow == [][C19_Step]_vars

\* C20: for an xli.ink target on which no strategy finds evidence, the
\* dynamic-content strategy re-runs the pipeline a bounded number of times
\* and detect_onlyfans returns.
C20_BoundedReruns == HasXli(bio_link) => <>(pc = "done")

\* the phase a run of the pipeline has reached, read from the notes that
\* detect_onlyfans writes when it enters a phase (lines 43, 49 and 54)
EPhaseReached(res) ==
    IF N("Phase 3: Deep investigation for stubborn links") \in Range(res.debug_info)
    THEN DeepMethod
    ELSE IF N("Phase 2: Enhanced detection for failing links") \in Range(res.debug_info)
    THEN "Phase 2: Enhanced HTTP strategies"
    ELSE "Phase 1: Direct HTTP detection"

\* C21: in every result returned by detect_onlyfans of the enhanced detector
\* detection_method is set only when has_onlyfans is true, and it then names
\* the phase whose strategy found the evidence.
C21_MethodNamesFindingPhase ==
    pc = "done" =>
        /\ results.detection_method # "None" => results.has_onlyfans
        /\ results.has_onlyfans => results.detection_method = EPhaseReached(results)

(***************************************************************************)
(* The redirect resolvers: _follow_redirects_fast, _follow_redirects_      *)
(* enhanced and _follow_redirects_deep of UltimateHTTPDetector             *)
(* (src/onlyfans_detector_http_ultimate.py, lines 426-499) and             *)
(* _follow_redirects of OnlyFansDetector (src/onlyfans_detector.py, lines  *)
(* 310-333).  The four bodies are the same statement for statement; they   *)
(* differ in the default of max_redirects (3, 5, 7, 5) and in the timeout  *)
(* of a request.  The argument max_redirects is redirect_limit here.       *)
(***************************************************************************)
MaxRedirects == 4

\* the URLs of the two sites: the path-relative reference "next" and the
\* absolute path "/next" lead to the same page of a site
Sites ==
    {T_OTHER, Origin(T_OTHER) \o LOC_PATH, LOC_ABS, Origin(LOC_ABS) \o LOC_PATH}

Locations == {LOC_PATH, LOC_ABS, LOC_REL}

\* what a URL can answer to a HEAD request
HeadAnswers ==
    {Exc, Http(200, NoLocation, B_EMPTY), Http(405, NoLocation, B_EMPTY),
     Http(302, NoLocation, B_EMPTY)}
    \cup {Http(302, l, B_EMPTY) : l \in Locations}

\* client.head(u, follow_redirects=False): httpx raises for a URL without
\* scheme and host
HeadOf(u) == IF u \in Sites THEN web[u] ELSE Exc

FollowUnchanged ==
    UNCHANGED <<bio_link, PLAYWRIGHT_AVAILABLE, results, current_url, redirect_count,
                browser, onlyfans_found, indicators, started, returned, raised,
                faults, again, clock, server, depth, request, response, bio_links,
                batch, invoked, stage, parked, alone, shared, switches,
                start_url, redirect_limit, web, content>>

\* variant: the loop makes one pass more
FollowMoreOffByOne(n) == n <= redirect_limit

\* for _ in range(max_redirects): there is a pass number n (from 0)
FollowMore(n) == n < redirect_limit

\* variant: the hop that ended the loop is taken off the chain
FollowReturnDropsHop(cur, ch) ==
    /\ pc' = "done" /\ resp' = NoResp
    /\ current' = cur
    /\ chain' = IF Len(ch) > 1 THEN SubSeq(ch, 1, Len(ch) - 1) ELSE ch
    /\ UNCHANGED probes

\* return current, chain
FollowReturn(cur, ch) ==
    /\ pc' = "done" /\ resp' = NoResp
    /\ current' = cur /\ chain' = ch
    /\ UNCHANGED probes

\* resp = await client.head(current, follow_redirects=False, ...)
FollowProbe(cur, ch) ==
    /\ pc' = "follow_head" /\ resp' = HeadOf(cur)
    /\ current' = cur /\ chain' = ch
    /\ probes' = Append(probes, [method |-> "HEAD", url |-> cur])

\* pass n of the loop begins, or the loop is over
FollowPass(n, cur, ch) ==
    /\ i' = n
    /\ IF FollowMore(n) THEN FollowProbe(cur, ch) ELSE FollowReturn(cur, ch)

\* the URL of the next hop: only a Location that starts with "/" is joined
FollowHop(cur, location) ==
    IF StartsWith(location, "/") THEN urljoin(cur, location) ELSE location

\* the resolver is called: chain = [url]; current = url
FollowStart ==
    /\ pc = "idle"
    /\ FollowUnchanged
    /\ FollowPass(0, start_url, <<start_url>>)

\* the resolver resumes with the answer to its HEAD request
FollowHead ==
    /\ pc = "follow_head"
    /\ FollowUnchanged
    /\ IF resp.kind # "exc" /\ IsRedirect(resp) /\ resp.location # NoLocation
       THEN FollowPass(i + 1, FollowHop(current, resp.location),
                       Append(chain, FollowHop(current, resp.location)))
       ELSE i' = i /\ FollowReturn(current, chain)

FollowInit ==
    /\ start_url \in {T_OTHER, LOC_ABS}
    /\ redirect_limit \in 0..MaxRedirects
    /\ web \in [Sites -> HeadAnswers]
    /\ current = "" /\ chain = <<>> /\ probes = <<>> /\ content = <<>>
    /\ bio_link = "none" /\ PLAYWRIGHT_AVAILABLE = FALSE
    /\ pc = "idle" /\ resp = NoResp
    /\ results = FreshResults
    /\ current_url = "" /\ redirect_count = 0 /\ i = 0
    /\ browser = "none" /\ onlyfans_found = NoLocation /\ indicators = "unbound"
    /\ started = <<>> /\ returned = <<>> /\ raised = FALSE /\ faults = 0 /\ again = 0
    /\ clock = 0 /\ depth = 0
    /\ server = [t \in Targets |-> "any"]
    /\ request = NoRequest /\ response = NoResponse
    /\ bio_links = <<>> /\ batch = <<>> /\ invoked = 0
    /\ stage = "single" /\ parked = NoCall /\ alone = <<>> /\ shared = FALSE
    /\ switches = 0

FollowNext == FollowStart \/ FollowHead

FollowSpec == FollowInit /\ [][FollowNext]_vars

(***************************************************************************)
(* Properties of the redirect resolvers                                    *)
(***************************************************************************)

\* C22: the resolver returns a chain of at most max_redirects + 1 URLs that
\* starts with the original URL; with max_redirects = 0 the chain is the
\* original URL alone.
C22_ChainBounded ==
    pc = "done" =>
        /\ Len(chain) >= 1 /\ chain[1] = start_url
        /\ Len(chain) <= redirect_limit + 1
        /\ redirect_limit = 0 => chain = <<start_url>>

C22_Witness ==
    pc = "done" /\ redirect_limit = 3 /\ Len(chain) = 4

\* the URL a redirect of u leads to (RFC 3986 reference resolution)
Target(u) == urljoin(u, web[u].location)

Redirecting(u) == u \in Sites /\ web[u].kind = "http" /\ IsRedirect(web[u])
                  /\ web[u].location # NoLocation

\* the three URLs that start_url leads to, one redirect after the other
Hop1 == Target(start_url)
Hop2 == Target(Hop1)
Hop3 == Target(Hop2)

\* the web holds a chain of 3 redirects from start_url that ends in a URL
\* answering 200
ThreeRedirects ==
    /\ Redirecting(start_url) /\ Redirecting(Hop1) /\ Redirecting(Hop2)
    /\ Hop3 \in Sites /\ web[Hop3].kind = "http" /\ web[Hop3].status = 200

\* C23: given a chain of 3 redirects that ends in a URL answering 200 and
\* max_redirects >= 3, the resolver returns the chain of the origin and the
\* 3 hops in visiting order, and the last URL of the chain as final URL.
C23_ThreeHops ==
    (pc = "done" /\ ThreeRedirects /\ redirect_limit >= 3) =>
        /\ chain = <<start_url, Hop1, Hop2, Hop3>>
        /\ current = Hop3

\* C24: whenever a hop answers with a redirect whose Location is not an
\* absolute URL, the next URL requested is that Location resolved against
\* the URL of the current hop.
C24_Step ==
    (pc = "follow_head" /\ resp.kind = "http" /\ IsRedirect(resp)
        /\ resp.location # NoLocation /\ ~StartsWith(resp.location, "http"))
    => current' = urljoin(current, resp.location)

C24_RelativeAgainstCurrentHop == [][C24_Step]_vars

\* the hop that was probed ends the resolution
Terminal(r) == r.kind = "exc" \/ ~IsRedirect(r) \/ r.location = NoLocation

\* C25: the resolver stops at the first hop that answers with a non-redirect
\* status, with a redirect without Location, or that fails; it returns the
\* chain accumulated so far, whose last URL is the URL of that hop and the
\* final URL.
C25_Step ==
    (pc = "follow_head" /\ Terminal(resp)) =>
        /\ pc' = "done"
        /\ chain' = chain /\ current' = current
        /\ current' = probes[Len(probes)].url
        /\ chain'[Len(chain')] = current'

C25_StopsAtTerminalHop == [][C25_Step]_vars

C25_Witness ==
    pc = "done" /\ Len(chain) = 3 /\ Terminal(HeadOf(current)) /\ redirect_limit > 2

\* C26: each hop is probed with HEAD first, and a hop whose HEAD request is
\* answered 405 Method Not Allowed is probed again with GET before the
\* resolver takes the hop as terminal.
C26_Step ==
    (pc = "follow_head" /\ resp.kind = "http" /\ resp.status = 405) =>
        probes' = Append(probes, [method |-> "GET", url |-> current])

C26_GetAfterUnansweredHead == [][C26_Step]_vars

(***************************************************************************)
(* HybridOnlyFansDetector._phase2_deep_investigation                       *)
(* (src/onlyfans_detector_hybrid.py, lines 134-216): the phase that works  *)
(* with a pyppeteer browser.  OnlyFansDetector._check_interactive_page     *)
(* (src/onlyfans_detector.py, lines 87-176) has the same launch, newPage,  *)
(* try, except, finally structure with other texts.  What is done with the *)
(* loaded page inside the try block is one awaited operation here.         *)
(***************************************************************************)

\* what loading and inspecting the page can give: an exception, or the
\* rendered page, the Location of a redirect seen by page.on('response'),
\* and whether a click led to a profile
DeepLoads ==
    {Exc} \cup {Page(b, l, f) : b \in Bodies, l \in {NoLocation, OF_ALICE, OF_FILES},
                                f \in BOOLEAN}

\* lines 247-267: the parser is chosen by the domain; the parsers for
\* link.me and beacons.ai read the href of anchors, the generic one reads
\* data-url as well
DeepParser(u) ==
    IF HasLinkme(Origin(u)) THEN "phase2_linkme_deep"
    ELSE IF HasBeacons(Origin(u)) THEN "phase2_beacons_deep"
    ELSE "phase2_generic_deep"

\* the URLs a parser takes (lines 293, 439): 'onlyfans.com' in href.lower()
\* and '/files' not in href
DeepParsed(u, b) ==
    {h \in (IF DeepParser(u) = "phase2_generic_deep" THEN b.href \cup b.data ELSE b.href) :
        Contains(Lower(h), "onlyfans.com") /\ ~Contains(h, "/files")}

\* line 183: the links that pass OF_REGEX and are no /files or /public URL
DeepLinks(b) ==
    {h \in b.href \cup b.data : Contains(Lower(h), "onlyfans.com") /\ ~IsAssetUrl(h)}

\* the phase returns value to detect_onlyfans
DeepReturn(res, value) ==
    /\ results' = res /\ returned' = Append(returned, value)
    /\ pc' = "done" /\ resp' = NoResp /\ again' = 0

DeepResumed ==
    /\ Counted /\ Resumed /\ Raising(FALSE) /\ KeepLocals
    /\ UNCHANGED <<bio_link, PLAYWRIGHT_AVAILABLE, started>>

\* evidence was found inside the try block: await browser.close(), return True
DeepFound(res) ==
    /\ results' = res
    /\ AwaitBrowser("deep_close")
    /\ UNCHANGED <<returned, browser>>

\* the phase is entered: browser = await launch(...) (line 138)
DeepStart ==
    /\ pc = "idle"
    /\ Counted /\ clock' = 0 /\ UNCHANGED callers /\ UNCHANGED depth
    /\ Raising(FALSE) /\ KeepLocals
    /\ UNCHANGED <<bio_link, PLAYWRIGHT_AVAILABLE, results, returned, browser>>
    /\ started' = Append(started, "Phase 2")
    /\ AwaitBrowser("deep_launch")

\* launch resumes; page = await browser.newPage() (line 156)
DeepLaunch ==
    /\ pc = "deep_launch"
    /\ DeepResumed
    /\ IF resp.kind = "ok"
       THEN /\ browser' = "open"
            /\ AwaitBrowser("deep_new_page")
            /\ UNCHANGED <<results, returned>>
       ELSE /\ UNCHANGED browser
            /\ DeepReturn(Error(results, "Phase 2 setup failed"), FALSE)

\* newPage resumes, outside the try block whose finally closes the browser
\* (lines 156-169); its exception goes to the outer except (lines 213-214)
DeepNewPage ==
    /\ pc = "deep_new_page"
    /\ DeepResumed
    /\ UNCHANGED browser
    /\ IF resp.kind = "ok"
       THEN /\ Await("deep_page", DeepLoads)
            /\ UNCHANGED <<results, returned>>
       ELSE DeepReturn(Error(results, "Phase 2 setup failed"), FALSE)

\* the try block with the loaded page (lines 167-207)
DeepPage ==
    /\ pc = "deep_page"
    /\ DeepResumed
    /\ IF resp.kind = "exc"
       THEN /\ results' = Error(results, "Phase 2 page interaction failed")
            /\ AwaitBrowser("deep_finally_false")
            /\ UNCHANGED <<returned, browser>>
       ELSE IF DeepParsed(bio_link, resp.body) # {}
       THEN \E h \in DeepParsed(bio_link, resp.body) :
                DeepFound([Debug(Found(results, {h}), N("Phase 2: Found OnlyFans via deep parsing"))
                             EXCEPT !.detection_method = DeepParser(bio_link)])
       ELSE IF DeepLinks(resp.body) # {}
       THEN DeepFound([Debug(Found(results, DeepLinks(resp.body)),
                             Note("Phase 2: Found OnlyFans links via deep extraction",
                                  Cardinality(DeepLinks(resp.body)), ""))
                          EXCEPT !.detection_method = "phase2_deep_link_extraction"])
       ELSE IF resp.button
       THEN DeepFound([Debug(Found(results, {OF_ALICE}), N("Phase 2: Found OnlyFans via click"))
                          EXCEPT !.detection_method = "phase2_interactive_click"])
       ELSE IF Captured(resp.location) # NoLocation
       THEN DeepFound([Debug(Found(results, {resp.location}),
                             Note("Phase 2: Captured OnlyFans redirects", 1, ""))
                          EXCEPT !.detection_method = "phase2_redirect_capture"])
       ELSE /\ AwaitBrowser("deep_finally_false")
            /\ UNCHANGED <<results, returned, browser>>

\* await browser.close() before return True (lines 179, 190, 195, 204); its
\* exception goes to the inner except (lines 208-209)
DeepClose ==
    /\ pc = "deep_close"
    /\ DeepResumed
    /\ UNCHANGED returned
    /\ IF resp.kind = "ok"
       THEN /\ browser' = "closed" /\ UNCHANGED results
            /\ AwaitBrowser("deep_finally_true")
       ELSE /\ UNCHANGED browser
            /\ results' = Error(results, "Phase 2 page interaction failed")
            /\ AwaitBrowser("deep_finally_false")

\* finally: await browser.close() (lines 210-211), then the phase returns;
\* an exception of this close goes to the outer except (lines 213-216)
DeepFinally ==
    /\ pc \in {"deep_finally_true", "deep_finally_false"}
    /\ DeepResumed
    /\ browser' = IF resp.kind = "ok" THEN "closed" ELSE browser
    /\ IF resp.kind = "exc"
       THEN DeepReturn(Error(results, "Phase 2 setup failed"), FALSE)
       ELSE DeepReturn(results, pc = "deep_finally_true")

\* detect_onlyfans has reset self.results and phase 1 has returned False
DeepInit ==
    /\ bio_link \in Targets
    /\ PLAYWRIGHT_AVAILABLE = FALSE
    /\ pc = "idle" /\ resp = NoResp
    /\ results = FreshResults
    /\ current_url = "" /\ redirect_count = 0 /\ i = 0
    /\ browser = "none" /\ onlyfans_found = NoLocation /\ indicators = "unbound"
    /\ started = <<"Phase 1">> /\ returned = <<FALSE>> /\ raised = FALSE
    /\ faults = 0 /\ again = 0
    /\ clock = 0 /\ depth = 0
    /\ server = [t \in Targets |-> "any"]
    /\ NoCaller

DeepNext ==
    \/ DeepStart
    \/ DeepLaunch
    \/ DeepNewPage
    \/ DeepPage
    \/ DeepClose
    \/ DeepFinally

DeepSpec == DeepInit /\ [][DeepNext]_vars

(***************************************************************************)
(* The scan of the page text for direct links: _check_direct_links of      *)
(* OnlyFansDetector (src/onlyfans_detector_fast.py, lines 56-80).  Lines   *)
(* 76-95 of src/onlyfans_detector_http_ultimate.py are the same statements *)
(* with the method name "phase1_direct_html_scan".  The page text is the   *)
(* list of its URLs, one entry per occurrence, in the order of the text;   *)
(* onlyfans_urls is a list here, as in the code.                           *)
(***************************************************************************)
MaxOccurrences == 3

Texts == UNION {[1..n -> UrlTokens] : n \in 0..MaxOccurrences}

\* response.text.lower()
LowerAll(text) == [k \in 1..Len(text) |-> Lower(text[k])]

IsOfUrl(u) == MatchesOfRegex(u)

NotAsset(u) == ~IsAssetUrl(u)

\* line 69: [url for url in of_urls if '/files' not in url and '/public' not in url]
ValidUrls(of_urls) == SelectSeq(of_urls, NotAsset)

DirectUnchanged ==
    UNCHANGED <<bio_link, PLAYWRIGHT_AVAILABLE, current_url, redirect_count, i,
                browser, onlyfans_found, indicators, started, raised, faults, again,
                clock, depth, callers>>

\* _check_direct_links is called: response = await client.get(bio_link)
DirectStart ==
    /\ pc = "idle"
    /\ DirectUnchanged
    /\ pc' = "direct_get"
    /\ resp' \in {Exc, Http(200, NoLocation, B_EMPTY), Http(403, NoLocation, B_EMPTY)}
    /\ UNCHANGED <<results, returned>>

\* the GET resumes (lines 61-80)
DirectScan ==
    /\ pc = "direct_get"
    /\ DirectUnchanged
    /\ pc' = "done" /\ resp' = NoResp
    /\ IF resp.kind = "exc"
       THEN /\ results' = Error(results, "Direct link check failed")
            /\ returned' = Append(returned, FALSE)
       ELSE LET of_urls    == SelectSeq(LowerAll(content), IsOfUrl)
                valid_urls == ValidUrls(of_urls)
            IN  IF resp.status = 200 /\ valid_urls # <<>>
                THEN /\ results' = [Debug(results, Note("Found direct OnlyFans links",
                                                        Len(valid_urls), ""))
                                      EXCEPT !.has_onlyfans = TRUE,
                                             !.onlyfans_urls = valid_urls,
                                             !.detection_method = "direct_html_scan"]
                     /\ returned' = Append(returned, TRUE)
                ELSE /\ UNCHANGED results
                     /\ returned' = Append(returned, FALSE)

\* detect_onlyfans has reset self.results; the page the site serves
DirectInit ==
    /\ content \in Texts
    /\ bio_link = T_OTHER
    /\ PLAYWRIGHT_AVAILABLE = FALSE
    /\ pc = "idle" /\ resp = NoResp
    /\ results = [FreshResults EXCEPT !.onlyfans_urls = <<>>]
    /\ current_url = "" /\ redirect_count = 0 /\ i = 0
    /\ browser = "none" /\ onlyfans_found = NoLocation /\ indicators = "unbound"
    /\ started = <<>> /\ returned = <<>> /\ raised = FALSE /\ faults = 0 /\ again = 0
    /\ clock = 0 /\ depth = 0
    /\ server = [t \in Targets |-> "any"]
    /\ start_url = "" /\ redirect_limit = 0 /\ current = "" /\ chain = <<>>
    /\ web = <<>> /\ probes = <<>>
    /\ request = NoRequest /\ response = NoResponse
    /\ bio_links = <<>> /\ batch = <<>> /\ invoked = 0
    /\ stage = "single" /\ parked = NoCall /\ alone = <<>> /\ shared = FALSE
    /\ switches = 0

DirectNext == DirectStart \/ DirectScan

DirectSpec == DirectInit /\ [][DirectNext]_vars

(***************************************************************************)
(* _handle_redirects_better of HybridFinalDetector and of                  *)
(* EnhancedOnlyFansDetector, each called on its own on a fresh detector    *)
(* and run against the same answers of the server: the first run draws the *)
(* answers, the second run gets them again in the same order.  A run is    *)
(* observed until the function returns or ScriptLen answers are used.      *)
(***************************************************************************)
ScriptLen == 5

TwinAnswers ==
    {Exc, Http(200, NoLocation, B_EMPTY), Http(200, NoLocation, B_ALICE),
     Http(404, NoLocation, B_EMPTY), Http(302, NoLocation, B_EMPTY)}
    \cup {Http(302, l, B_EMPTY) : l \in Locations}

\* what one pass of the while loop ends with: the function returns v, or
\* the loop sends client.get(url) with redirect_count = n
Returns(res, v)   == [kind |-> "return", value |-> v, url |-> "", n |-> 0, res |-> res]
Gets(res, url, n) == [kind |-> "get", value |-> FALSE, url |-> url, n |-> n, res |-> res]

\* the 200 branch, the same text in both files
FinalDestination(res, n, r) ==
    IF FindOfUrls(LowerText(r.body)) # {}
    THEN Returns(Debug(Found(res, FindOfUrls(LowerText(r.body))),
                       Note("Found OnlyFans after redirects", n, "")), TRUE)
    ELSE Returns(res, FALSE)

\* hybrid_final lines 403-442, one pass with the answer r
FinalPass(res, url, n, r) ==
    IF r.kind = "exc" THEN Returns(Error(res, "Redirect handling failed"), FALSE)
    ELSE IF IsRedirect(r)
    THEN IF r.location # NoLocation
         THEN LET next == NextHop(res, url, r.location)
                  res1 == Debug(res, Note("Redirect", n + 1, next))
              IN  IF n + 1 < max_redirects THEN Gets(res1, next, n + 1)
                  ELSE Returns(res1, FALSE)
         ELSE IF AgeFlag(res) THEN Returns(res, FALSE) ELSE Gets(res, url, n)
    ELSE IF r.status = 200 THEN FinalDestination(res, n, r)
    ELSE IF AgeFlag(res) THEN Returns(res, FALSE) ELSE Gets(res, url, n)

\* enhanced lines 145-186, one pass with the answer r
EnhancedPass(res, url, n, r) ==
    IF r.kind = "exc" THEN Returns(Error(res, "Redirect handling failed"), FALSE)
    ELSE IF IsRedirect(r)
    THEN IF r.location # NoLocation
         THEN LET next == ENextHop(url, r.location)
                  res1 == Debug(res, Note("Redirect", n + 1, next))
              IN  IF n + 1 < max_redirects THEN Gets(res1, next, n + 1)
                  ELSE Returns(res1, FALSE)
         ELSE Returns(res, FALSE)
    ELSE IF r.status = 200 THEN FinalDestination(res, n, r)
    ELSE Returns(res, FALSE)

TwinUnchanged ==
    UNCHANGED <<bio_link, PLAYWRIGHT_AVAILABLE, i, browser, onlyfans_found, indicators,
                started, raised, faults, again, server, depth, request, response,
                bio_links, batch, invoked, parked, shared, switches, start_url,
                redirect_limit, current, chain, content>>

\* the observation of a run: the requests it sent, whether it returned and
\* what, and the verdict it left in self.results
Observation(requests, outcome, res) ==
    [requests |-> requests, outcome |-> outcome,
     has_onlyfans |-> res.has_onlyfans, onlyfans_urls |-> res.onlyfans_urls]

\* the run is over: the other detector's function is called next
TwinOver(requests, outcome, res) ==
    /\ alone' = Append(alone, Observation(requests, outcome, res))
    /\ stage' = IF stage = "final" THEN "enhanced" ELSE "both"
    /\ pc' = IF stage = "final" THEN "idle" ELSE "done"
    /\ resp' = NoResp /\ clock' = 0 /\ probes' = <<>>
    /\ results' = FreshResults /\ current_url' = "" /\ redirect_count' = 0
    /\ returned' = <<>>
    /\ UNCHANGED web

\* the function is suspended on client.get(url)
TwinAwaits(res, url, n, requests) ==
    /\ pc' = IF stage = "final" THEN "redirects_get" ELSE "e_redirects_get"
    /\ results' = res /\ current_url' = url /\ redirect_count' = n
    /\ probes' = requests /\ clock' = clock + 1
    /\ UNCHANGED <<alone, stage, returned>>

\* client.get(url) is sent: the first run gets any answer, the second run
\* the answer the first run got at this place; a run that needs an answer
\* beyond the observed ones is still running when the observation ends
TwinGet(res, url, n) ==
    LET requests == Append(probes, url)
    IN  IF stage = "final" /\ Len(web) < ScriptLen
        THEN /\ resp' \in TwinAnswers /\ web' = Append(web, resp')
             /\ TwinAwaits(res, url, n, requests)
        ELSE IF stage = "enhanced" /\ clock < Len(web)
        THEN /\ resp' = web[clock + 1] /\ UNCHANGED web
             /\ TwinAwaits(res, url, n, requests)
        ELSE TwinOver(requests, "running", res)

\* _handle_redirects_better is called on a fresh detector (lines 397-405 of
\* hybrid_final, 138-147 of enhanced)
TwinCall ==
    /\ pc = "idle" /\ stage \in {"final", "enhanced"}
    /\ TwinUnchanged
    /\ TwinGet(results, bio_link, 0)

\* the function resumes with the answer to client.get(current_url)
TwinResume ==
    /\ pc \in {"redirects_get", "e_redirects_get"}
    /\ TwinUnchanged
    /\ LET pass == IF stage = "final"
                   THEN FinalPass(results, current_url, redirect_count, resp)
                   ELSE EnhancedPass(results, current_url, redirect_count, resp)
       IN  IF pass.kind = "return"
           THEN TwinOver(probes, IF pass.value THEN "True" ELSE "False", pass.res)
           ELSE TwinGet(pass.res, pass.url, pass.n)

TwinInit ==
    /\ bio_link \in {T_OTHER, T_LINKME}
    /\ PLAYWRIGHT_AVAILABLE = FALSE
    /\ pc = "idle" /\ resp = NoResp
    /\ results = FreshResults
    /\ current_url = "" /\ redirect_count = 0 /\ i = 0
    /\ browser = "none" /\ onlyfans_found = NoLocation /\ indicators = "unbound"
    /\ started = <<>> /\ returned = <<>> /\ raised = FALSE /\ faults = 0 /\ again = 0
    /\ clock = 0 /\ depth = 0
    /\ server = [t \in Targets |-> "any"]
    /\ NoHelpers
    /\ request = NoRequest /\ response = NoResponse
    /\ bio_links = <<>> /\ batch = <<>> /\ invoked = 0
    /\ stage = "final" /\ parked = NoCall /\ alone = <<>> /\ shared = FALSE
    /\ switches = 0

TwinNext == TwinCall \/ TwinResume

TwinSpec == TwinInit /\ [][TwinNext]_vars

(***************************************************************************)
(* _platform_specific_parsing and _parse_linktree_deep of                  *)
(* HybridOnlyFansDetector (src/onlyfans_detector_hybrid.py, lines 245-323) *)
(* with a page of a linktr.ee profile.  Here i is the index of the running *)
(* selector of show_more_selectors and depth counts the invocations of     *)
(* _parse_linktree_deep that wait for an inner one (MaxDepth stands for    *)
(* any number from MaxDepth on: nothing in the code reads the nesting).    *)
(* Each invocation returns what its inner invocation returns (line 316).  *)
(***************************************************************************)
T_LINKTREE == "https://linktr.ee/kayla"
T_LINKTREE_WWW == "https://www.linktr.ee/kayla"

show_more_selectors == 3

\* what the page shows to the three expanded_selectors after waitFor(2000):
\* an exception, or the hrefs of the matching elements
LinktreePages == {Exc} \cup {Page(b, NoLocation, FALSE) : b \in Bodies}

\* what page.querySelector(selector) gives: an exception, None or an element
ShowMoreControls == {Exc, Absent, Ok}

LinktreeUnchanged ==
    UNCHANGED <<bio_link, PLAYWRIGHT_AVAILABLE, current_url, redirect_count, browser,
                onlyfans_found, indicators, started, raised, faults, again, clock,
                callers>>

\* line 293: the hrefs that are taken
LinktreeParsed(b) ==
    {h \in b.href : Contains(Lower(h), "onlyfans.com") /\ ~Contains(h, "/files")}

\* _parse_linktree_deep returns value, and so does every invocation that
\* waits for it and _platform_specific_parsing
LinktreeReturn(res, value) ==
    /\ results' = res /\ returned' = Append(returned, value)
    /\ pc' = "done" /\ resp' = NoResp /\ i' = 0
    /\ UNCHANGED depth

\* _parse_linktree_deep is entered with d invocations waiting (lines 275-292)
LinktreeEnter(d) ==
    /\ pc' = "linktree_scan" /\ resp' \in LinktreePages
    /\ depth' = d /\ i' = 0
    /\ UNCHANGED <<results, returned>>

\* the loop over show_more_selectors asks for the control of selector k
\* (lines 310-312), or is over (line 323)
LinktreeSelector(res, k) ==
    IF k <= show_more_selectors
    THEN /\ pc' = "linktree_selector" /\ resp' \in ShowMoreControls
         /\ i' = k /\ results' = res
         /\ UNCHANGED <<returned, depth>>
    ELSE LinktreeReturn(res, FALSE)

\* _platform_specific_parsing with the page of a linktr.ee profile (lines
\* 245-252)
LinktreeStart ==
    /\ pc = "idle"
    /\ LinktreeUnchanged
    /\ IF Contains(Lower(Origin(bio_link)), "linktr.ee")
       THEN LinktreeEnter(0)
       ELSE LinktreeReturn(results, FALSE)

\* the hrefs of the link elements were read (lines 288-300)
LinktreeScan ==
    /\ pc = "linktree_scan"
    /\ LinktreeUnchanged
    /\ IF resp.kind = "exc"
       THEN LinktreeReturn(Error(results, "Linktree deep parsing failed"), FALSE)
       ELSE IF LinktreeParsed(resp.body) # {}
       THEN \E h \in LinktreeParsed(resp.body) :
                LinktreeReturn([Debug(Found(results, {h}),
                                      N("Phase 2: Found OnlyFans via Linktree deep parsing"))
                                   EXCEPT !.detection_method = "phase2_linktree_deep"], TRUE)
       ELSE LinktreeSelector(results, 1)

\* page.querySelector(selector) has answered (lines 311-314): the control is
\* clicked, or the loop goes on
LinktreeControl ==
    /\ pc = "linktree_selector"
    /\ LinktreeUnchanged
    /\ IF resp.kind = "ok"
       THEN /\ pc' = "linktree_click" /\ resp' \in BrowserOps
            /\ UNCHANGED <<results, returned, depth, i>>
       ELSE LinktreeSelector(results, i + 1)

\* button.click() and page.waitFor(2000) are over (lines 313-319): the
\* function calls itself with the same page, or a bare except goes on with
\* the next selector
LinktreeClicked ==
    /\ pc = "linktree_click"
    /\ LinktreeUnchanged
    /\ IF resp.kind = "ok"
       THEN LinktreeEnter(IF depth < MaxDepth THEN depth + 1 ELSE depth)
       ELSE LinktreeSelector(results, i + 1)

LinktreeInit ==
    /\ bio_link \in {T_LINKTREE, T_LINKTREE_WWW, T_OTHER}
    /\ PLAYWRIGHT_AVAILABLE = FALSE
    /\ pc = "idle" /\ resp = NoResp
    /\ results = FreshResults
    /\ current_url = "" /\ redirect_count = 0 /\ i = 0
    /\ browser = "open" /\ onlyfans_found = NoLocation /\ indicators = "unbound"
    /\ started = <<"Phase 1", "Phase 2">> /\ returned = <<FALSE>> /\ raised = FALSE
    /\ faults = 0 /\ again = 0
    /\ clock = 0 /\ depth = 0
    /\ server = [t \in Targets |-> "any"]
    /\ NoCaller

LinktreeNext ==
    \/ LinktreeStart
    \/ LinktreeScan
    \/ LinktreeControl
    \/ LinktreeClicked

LinktreeSpec == LinktreeInit /\ [][LinktreeNext]_vars

\* the event loop resumes the coroutine whenever the awaited browser
\* operation has finished
LinktreeFairSpec == LinktreeSpec /\ WF_vars(LinktreeNext)

(***************************************************************************)
(* Properties of the interactive phases                                    *)
(***************************************************************************)

\* the host of the URL is one of the aggregators with a strategy of its own
KnownAggregator(u) ==
    HasLinkme(Origin(u)) \/ HasBeacons(Origin(u)) \/ HasXli(Origin(u))

\* C27: when Playwright is available and the host of the target is none of
\* link.me, beacons.ai and xli.ink, the interactive phase of
\* HybridFinalDetector runs the generic interactive strategy: the step that
\* starts phase 3 launches the browser of that strategy.
C27_Step ==
    (PLAYWRIGHT_AVAILABLE /\ ~KnownAggregator(bio_link)
        /\ "Phase 3" \notin Range(started) /\ "Phase 3" \in Range(started'))
    => (pc' = "launch" /\ StrategyOf(bio_link, results') = "generic")

C27_GenericForUnknownHosts == [][C27_Step]_vars

\* C28: every browser that an interactive phase launched is closed when the
\* phase returns, on every path: match, no match, and an exception at any
\* step after the launch, page creation included.
C28_BrowserClosedOnReturn == pc = "done" => browser # "open"

(***************************************************************************)
(* Properties of the returned result                                       *)
(***************************************************************************)
NoDuplicates(list) ==
    \A j, k \in 1..Len(list) : j # k => list[j] # list[k]

\* C29: the onlyfans_urls list of a returned result holds each URL at most
\* once, also when the URL occurs several times in the page.
C29_UrlsDeduplicated == pc = "done" => NoDuplicates(results.onlyfans_urls)

\* the keys of a result dict; age_verification_detected is a key only once
\* HybridFinalDetector has set it
ResultKeys(res) ==
    {k \in DOMAIN res : k # "age_verification_detected" \/ res[k] # "absent"}

\* C30: every result returned by detect_onlyfans_in_bio_link of the enhanced
\* detector has the entries has_onlyfans, onlyfans_urls, detection_method,
\* debug_info, errors and phase_used, whichever phase ended the call.
C30_FixedShape ==
    pc = "done" =>
        ResultKeys(results) = {"has_onlyfans", "onlyfans_urls", "detection_method",
                               "debug_info", "errors", "phase_used"}

(***************************************************************************)
(* Properties of the strategies of HybridFinalDetector                     *)
(***************************************************************************)

\* the awaits of the interactive strategies and of the link.me fallback
StrategyAwaits ==
    {"launch", "launch_fallback", "new_page", "goto", "linkme_click", "linkme_text",
     "beacons_recheck", "close_matched", "close_matched_text", "finally_true",
     "finally_false", "finally_raise", "beacons_alternative_get", "linkme_fallback_get"}

\* C31: the strategy of the interactive phase depends only on the host of
\* the target: targets with the same host get the same strategy, and a
\* target whose host is no known aggregator is never inside a
\* platform-specific strategy or the link.me fallback phase.
C31_HostDecidesStrategy ==
    /\ "Phase 3" \in Range(started) =>
          \A t \in Targets :
              Origin(t) = Origin(bio_link) => StrategyOf(t, results) = StrategyOf(bio_link, results)
    /\ ~KnownAggregator(bio_link) =>
          /\ pc \notin StrategyAwaits
          /\ "Phase 3.5" \notin Range(started)

\* C32: when the first browser launch fails, exactly one further launch
\* with the simpler configuration is made, and nothing is given up yet; the
\* strategy gives up (one more entry in errors, the phase fails unless the
\* beacons.ai alternative follows, the pipeline goes on) when that second
\* launch fails too.
C32_Step ==
    /\ (pc = "launch" /\ resp.kind = "exc") =>
          /\ pc' = "launch_fallback"
          /\ results'.errors = results.errors /\ returned' = returned
    /\ (pc = "launch_fallback" /\ resp.kind = "exc") =>
          /\ pc' \notin {"launch", "launch_fallback", "done"}
          /\ Len(results'.errors) = Len(results.errors) + 1
          /\ results'.errors[Len(results'.errors)] = FailureText(Running)
          /\ Running # "beacons" => returned' = Append(returned, FALSE)
          /\ browser' = "none"

C32_OneFurtherLaunch == [][C32_Step]_vars

C32_Witness ==
    /\ N("Fallback launch also failed") \in Range(results.debug_info)
    /\ pc = "done" /\ Len(started) > 3

\* C33: a redirect to the target domain (without /files) that was captured
\* while the link.me page loaded is used as evidence: the interactive phase
\* that captured it returns success, with that Location in onlyfans_urls
\* unless another step of the strategy found URLs of its own.
C33_Step ==
    (/\ pc \in StrategyAwaits
     /\ onlyfans_found # NoLocation
     /\ N("Loading link.me page...") \in Range(results.debug_info)
     /\ returned' # returned) =>
        /\ returned' = Append(returned, TRUE)
        /\ results'.has_onlyfans
        /\ onlyfans_found \in results'.onlyfans_urls \/ results.onlyfans_urls # {}

C33_CapturedRedirectIsEvidence == [][C33_Step]_vars

\* C34: the age-gate signal that the link.me fallback computes for a page
\* with status 200, stores in the result and reports in debug_info is true
\* exactly when the text of the page contains a phrase of the
\* age-verification vocabulary.
C34_Step ==
    (pc = "linkme_fallback_get" /\ i = 1 /\ resp.kind = "http" /\ resp.status = 200) =>
        /\ AgeFlag(results') <=> resp.body.age
        /\ Note("Overall age verification detected", 0, Bool(resp.body.age))
              \in Range(results'.debug_info)

C34_AgeSignalFollowsText == [][C34_Step]_vars

\* C35: when the first response of the link.me fallback has status 200 and
\* a body that mentions onlyfans, the fallback returns success: the call
\* ends with has_onlyfans true, detection_method "Phase 3.5: Special link.me
\* fallback", a URL in onlyfans_urls and no new entry in errors.
C35_Step ==
    (/\ pc = "linkme_fallback_get" /\ i = 1
     /\ resp.kind = "http" /\ resp.status = 200 /\ MentionsOnlyfans(resp.body)) =>
        /\ pc' = "done"
        /\ returned' = Append(returned, TRUE)
        /\ results'.has_onlyfans
        /\ results'.onlyfans_urls # {}
        /\ results'.detection_method = "Phase 3.5: Special link.me fallback"
        /\ results'.errors = results.errors

C35_MentionSucceeds == [][C35_Step]_vars

C35_Witness ==
    /\ pc = "done" /\ HasLinkme(bio_link)
    /\ results.detection_method = "Phase 3.5: Special link.me fallback"
    /\ N("OnlyFans found in link.me content via fallback") \in Range(results.debug_info)
    /\ results.has_onlyfans /\ results.errors = <<>>

\* C36: a phase or strategy that returns failure leaves has_onlyfans,
\* onlyfans_urls and detection_method as they were when it was entered, that
\* is as detect_onlyfans initialised them, since a success ends the call;
\* hence the returned result has has_onlyfans true exactly when
\* detection_method is set.
C36_Step ==
    /\ returned' = Append(returned, FALSE) =>
          /\ ~results'.has_onlyfans
          /\ results'.onlyfans_urls = {}
          /\ results'.detection_method = "None"
    /\ pc' = "done" =>
          (results'.has_onlyfans <=> results'.detection_method # "None")

C36_FailureLeavesVerdict == [][C36_Step]_vars

\* the URLs and the Location of an answer, as the server sent them
Observed(r) == r.body.href \cup r.body.data \cup r.body.text \cup {r.location}

\* C37: every URL that a step of detect_onlyfans puts into onlyfans_urls is
\* a target-domain URL that stands, character for character, in the body,
\* the rendered page or the Location of the answer the step handles, or is
\* the Location captured earlier while the page loaded.
C37_Step ==
    \A u \in results'.onlyfans_urls \ results.onlyfans_urls :
        /\ MatchesOfRegex(u)
        /\ u \in Observed(resp) \cup {onlyfans_found}

C37_UrlsWereObserved == [][C37_Step]_vars

(***************************************************************************)
(* Properties of the two _handle_redirects_better                          *)
(***************************************************************************)
\* C38: against the same sequence of server answers the function of
\* HybridFinalDetector sends the same requests in the same order as the
\* function of EnhancedOnlyFansDetector, and returns the same value with the
\* same verdict in self.results.
C38_SameRequestsSameOutcome ==
    stage = "both" => alone[1] = alone[2]

(***************************************************************************)
(* Properties of _parse_linktree_deep                                      *)
(***************************************************************************)
\* C39: _parse_linktree_deep returns for every page behaviour, also for a
\* page that still shows a "show more" control after each click: it calls
\* itself a bounded number of times.
C39_LinktreeReturns == <>(pc = "done")
====
